---------------------------- MODULE Spec2Model ----------------------------
(***************************************************************************)
(* A model of the query routing and location-resolution pipeline of the    *)
(* Ollama Weather Agent: the /chat handler of src/app.py and the           *)
(* interactive loop of examples/direct_usage.py, with the helper functions *)
(* they call.                                                              *)
(*                                                                         *)
(* Text is a sequence of one-character strings, so that substring tests,   *)
(* regular-expression searches and JSON parsing are computed on the        *)
(* characters as the code computes them.  A Python value is a record       *)
(* tagged by its type in field t.                                          *)
(***************************************************************************)
EXTENDS Integers, Sequences, FiniteSets, TLC

(***************************************************************************)
(* Characters and strings                                                  *)
(***************************************************************************)
UpperLetters == <<"A", "B", "C", "D", "E", "F", "G", "H", "I", "J", "K", "L", "M",
    "N", "O", "P", "Q", "R", "S", "T", "U", "V", "W", "X", "Y", "Z">>

LowerLetters == <<"a", "b", "c", "d", "e", "f", "g", "h", "i", "j", "k", "l", "m",
    "n", "o", "p", "q", "r", "s", "t", "u", "v", "w", "x", "y", "z">>

Digits == <<"0", "1", "2", "3", "4", "5", "6", "7", "8", "9">>

Range(f) == {f[i] : i \in DOMAIN f}

UpperSet == Range(UpperLetters)

AlphaSet == Range(UpperLetters) \cup Range(LowerLetters)

DigitSet == Range(Digits)

\* \s of the re module and the characters str.strip() removes
Whitespace == {" ", "\t", "\n"}

\* \w of the re module
WordSet == AlphaSet \cup DigitSet \cup {"_"}

IsSpace(c) == c \in Whitespace

IsAlpha(c) == c \in AlphaSet

\* str.lower() on one character
Lower(c) ==
    IF c \in UpperSet
    THEN LowerLetters[CHOOSE i \in 1..26 : UpperLetters[i] = c]
    ELSE c

\* str.lower()
LowerStr(s) == [i \in 1..Len(s) |-> Lower(s[i])]

\* the value of a decimal digit
DigitVal(c) == (CHOOSE i \in 1..10 : Digits[i] = c) - 1

\* sub occurs in s at index i
MatchAt(s, i, sub) ==
    /\ i >= 1
    /\ i + Len(sub) - 1 <= Len(s)
    /\ \A k \in 1..Len(sub) : s[i + k - 1] = sub[k]

\* sub occurs in s at index i, ignoring case (re.IGNORECASE on a literal)
MatchAtNoCase(s, i, sub) == MatchAt(LowerStr(s), i, LowerStr(sub))

\* the Python test  sub in s
Contains(s, sub) == \E i \in 1..(Len(s) + 1) : MatchAt(s, i, sub)

StartsWith(s, sub) == MatchAt(s, 1, sub)

EndsWith(s, sub) == Len(sub) <= Len(s) /\ MatchAt(s, Len(s) - Len(sub) + 1, sub)

\* s[i:] in Python, for a 1-based i
Drop(s, i) == SubSeq(s, i, Len(s))

\* the length of the longest run of characters of class cls starting at s[i]
RunLen(s, i, cls) ==
    LET stops == {j \in i..Len(s) : s[j] \notin cls}
    IN  IF i > Len(s) THEN 0
        ELSE IF stops = {} THEN Len(s) - i + 1
        ELSE (CHOOSE j \in stops : \A k \in stops : j <= k) - i

\* the length of the longest run of characters outside cls starting at s[i]
RunLenNot(s, i, cls) ==
    LET stops == {j \in i..Len(s) : s[j] \in cls}
    IN  IF i > Len(s) THEN 0
        ELSE IF stops = {} THEN Len(s) - i + 1
        ELSE (CHOOSE j \in stops : \A k \in stops : j <= k) - i

Min(S) == CHOOSE x \in S : \A y \in S : x <= y

Max(S) == CHOOSE x \in S : \A y \in S : x >= y

\* str.strip(chars)
StripChars(s, cls) ==
    LET keep == {i \in 1..Len(s) : s[i] \notin cls}
    IN  IF keep = {} THEN <<>> ELSE SubSeq(s, Min(keep), Max(keep))

\* str.strip()
Strip(s) == StripChars(s, Whitespace)

\* re.sub(r'\s+', ' ', s): every run of whitespace becomes one space
RECURSIVE CollapseFrom(_, _)
CollapseFrom(s, i) ==
    IF i > Len(s) THEN <<>>
    ELSE IF IsSpace(s[i])
         THEN IF i > 1 /\ IsSpace(s[i - 1])
              THEN CollapseFrom(s, i + 1)
              ELSE <<" ">> \o CollapseFrom(s, i + 1)
         ELSE <<s[i]>> \o CollapseFrom(s, i + 1)

CollapseWhitespace(s) == CollapseFrom(s, 1)

\* re.sub(r'[^\w\s]', '', s): the characters that are neither \w nor \s removed
RemoveSpecial(s) == SelectSeq(s, LAMBDA c : c \in WordSet \cup Whitespace)

\* str.split(): the maximal runs of non-whitespace characters
RECURSIVE SplitFrom(_, _)
SplitFrom(s, i) ==
    IF i > Len(s) THEN <<>>
    ELSE IF IsSpace(s[i]) THEN SplitFrom(s, i + 1)
    ELSE LET n == RunLenNot(s, i, Whitespace)
         IN  <<SubSeq(s, i, i + n - 1)>> \o SplitFrom(s, i + n)

SplitWhitespace(s) == SplitFrom(s, 1)

\* str.split(sep) for a one-character separator
RECURSIVE SplitOnFrom(_, _, _)
SplitOnFrom(s, i, sep) ==
    LET n == RunLenNot(s, i, {sep})
    IN  IF i + n > Len(s) THEN <<SubSeq(s, i, Len(s))>>
        ELSE <<SubSeq(s, i, i + n - 1)>> \o SplitOnFrom(s, i + n + 1, sep)

SplitOn(s, sep) == SplitOnFrom(s, 1, sep)

\* str(n) for an integer n
RECURSIVE NatToStr(_)
NatToStr(n) == IF n < 10 THEN <<Digits[n + 1]>> ELSE NatToStr(n \div 10) \o <<Digits[(n % 10) + 1]>>

IntToStr(n) == IF n < 0 THEN <<"-">> \o NatToStr(-n) ELSE NatToStr(n)

\* "weather"
S_weather == <<"w", "e", "a", "t", "h", "e", "r">>
\* "unknown"
S_unknown == <<"u", "n", "k", "n", "o", "w", "n">>
\* "Unknown"
S_Unknown == <<"U", "n", "k", "n", "o", "w", "n">>
\* "location"
S_location == <<"l", "o", "c", "a", "t", "i", "o", "n">>
\* "I need a location to check the weather. Please specify a city or place."
MsgNeedLocation == <<"I", " ", "n", "e", "e", "d", " ", "a", " ", "l", "o", "c", "a", "t", "i",
    "o", "n", " ", "t", "o", " ", "c", "h", "e", "c", "k", " ", "t", "h", "e", " ", "w", "e",
    "a", "t", "h", "e", "r", ".", " ", "P", "l", "e", "a", "s", "e", " ", "s", "p", "e", "c",
    "i", "f", "y", " ", "a", " ", "c", "i", "t", "y", " ", "o", "r", " ", "p", "l", "a", "c",
    "e", ".">>
\* "I had trouble processing your weather query. Please try again with a clearer location."
MsgTrouble == <<"I", " ", "h", "a", "d", " ", "t", "r", "o", "u", "b", "l", "e", " ", "p", "r",
    "o", "c", "e", "s", "s", "i", "n", "g", " ", "y", "o", "u", "r", " ", "w", "e", "a", "t",
    "h", "e", "r", " ", "q", "u", "e", "r", "y", ".", " ", "P", "l", "e", "a", "s", "e", " ",
    "t", "r", "y", " ", "a", "g", "a", "i", "n", " ", "w", "i", "t", "h", " ", "a", " ", "c",
    "l", "e", "a", "r", "e", "r", " ", "l", "o", "c", "a", "t", "i", "o", "n", ".">>
\* "I don't understand your query. Please try again."
MsgDontUnderstand == <<"I", " ", "d", "o", "n", "'", "t", " ", "u", "n", "d", "e", "r", "s",
    "t", "a", "n", "d", " ", "y", "o", "u", "r", " ", "q", "u", "e", "r", "y", ".", " ", "P",
    "l", "e", "a", "s", "e", " ", "t", "r", "y", " ", "a", "g", "a", "i", "n", ".">>
\* "I couldn't find the specific location '"
S_NotFoundSpecific1 == <<"I", " ", "c", "o", "u", "l", "d", "n", "'", "t", " ", "f", "i", "n",
    "d", " ", "t", "h", "e", " ", "s", "p", "e", "c", "i", "f", "i", "c", " ", "l", "o", "c",
    "a", "t", "i", "o", "n", " ", "'">>
\* "'. Try asking about the weather in '"
S_NotFoundSpecific2 == <<"'", ".", " ", "T", "r", "y", " ", "a", "s", "k", "i", "n", "g", " ",
    "a", "b", "o", "u", "t", " ", "t", "h", "e", " ", "w", "e", "a", "t", "h", "e", "r", " ",
    "i", "n", " ", "'">>
\* "' instead."
S_NotFoundSpecific3 == <<"'", " ", "i", "n", "s", "t", "e", "a", "d", ".">>
\* "I couldn't find the location '"
S_NotFound1 == <<"I", " ", "c", "o", "u", "l", "d", "n", "'", "t", " ", "f", "i", "n", "d",
    " ", "t", "h", "e", " ", "l", "o", "c", "a", "t", "i", "o", "n", " ", "'">>
\* "'. Please try a different location."
S_NotFound2 == <<"'", ".", " ", "P", "l", "e", "a", "s", "e", " ", "t", "r", "y", " ", "a",
    " ", "d", "i", "f", "f", "e", "r", "e", "n", "t", " ", "l", "o", "c", "a", "t", "i", "o",
    "n", ".">>
\* "I couldn't get the weather for "
S_CouldntGet1 == <<"I", " ", "c", "o", "u", "l", "d", "n", "'", "t", " ", "g", "e", "t", " ",
    "t", "h", "e", " ", "w", "e", "a", "t", "h", "e", "r", " ", "f", "o", "r", " ">>
\* "Based on your query about the weather in "
S_Based1 == <<"B", "a", "s", "e", "d", " ", "o", "n", " ", "y", "o", "u", "r", " ", "q", "u",
    "e", "r", "y", " ", "a", "b", "o", "u", "t", " ", "t", "h", "e", " ", "w", "e", "a", "t",
    "h", "e", "r", " ", "i", "n", " ">>
\* ", here's what I found:\n\n"
S_Based2 == <<",", " ", "h", "e", "r", "e", "'", "s", " ", "w", "h", "a", "t", " ", "I", " ",
    "f", "o", "u", "n", "d", ":", "\n", "\n">>
\* "Error"
S_Error == <<"E", "r", "r", "o", "r">>
\* "Error: OpenWeather API key not configured."
MsgNoApiKey == <<"E", "r", "r", "o", "r", ":", " ", "O", "p", "e", "n", "W", "e", "a", "t",
    "h", "e", "r", " ", "A", "P", "I", " ", "k", "e", "y", " ", "n", "o", "t", " ", "c", "o",
    "n", "f", "i", "g", "u", "r", "e", "d", ".">>
\* "Error fetching weather data: "
S_ErrFetchWeather == <<"E", "r", "r", "o", "r", " ", "f", "e", "t", "c", "h", "i", "n", "g",
    " ", "w", "e", "a", "t", "h", "e", "r", " ", "d", "a", "t", "a", ":", " ">>
\* "Error fetching forecast data: "
S_ErrFetchForecast == <<"E", "r", "r", "o", "r", " ", "f", "e", "t", "c", "h", "i", "n", "g",
    " ", "f", "o", "r", "e", "c", "a", "s", "t", " ", "d", "a", "t", "a", ":", " ">>
\* "Error parsing weather data: "
S_ErrParseWeather == <<"E", "r", "r", "o", "r", " ", "p", "a", "r", "s", "i", "n", "g", " ",
    "w", "e", "a", "t", "h", "e", "r", " ", "d", "a", "t", "a", ":", " ">>
\* "how"
S_how == <<"h", "o", "w">>
\* "what"
S_what == <<"w", "h", "a", "t">>
\* "when"
S_when == <<"w", "h", "e", "n">>
\* "where"
S_where == <<"w", "h", "e", "r", "e">>
\* "why"
S_why == <<"w", "h", "y">>
\* "is"
S_is == <<"i", "s">>
\* "can"
S_can == <<"c", "a", "n">>
\* "will"
S_will == <<"w", "i", "l", "l">>
\* "should"
S_should == <<"s", "h", "o", "u", "l", "d">>
\* "in"
S_in == <<"i", "n">>
\* "for"
S_for == <<"f", "o", "r">>
\* "at"
S_at == <<"a", "t">>
\* "of"
S_of == <<"o", "f">>
\* "latitude"
K_latitude == <<"l", "a", "t", "i", "t", "u", "d", "e">>
\* "longitude"
K_longitude == <<"l", "o", "n", "g", "i", "t", "u", "d", "e">>
\* "lat"
K_lat == <<"l", "a", "t">>
\* "lon"
K_lon == <<"l", "o", "n">>
\* "name"
K_name == <<"n", "a", "m", "e">>
\* "sys"
K_sys == <<"s", "y", "s">>
\* "country"
K_country == <<"c", "o", "u", "n", "t", "r", "y">>
\* "main"
K_main == <<"m", "a", "i", "n">>
\* "temp"
K_temp == <<"t", "e", "m", "p">>
\* "feels_like"
K_feels_like == <<"f", "e", "e", "l", "s", "_", "l", "i", "k", "e">>
\* "humidity"
K_humidity == <<"h", "u", "m", "i", "d", "i", "t", "y">>
\* "weather"
K_weather == <<"w", "e", "a", "t", "h", "e", "r">>
\* "description"
K_description == <<"d", "e", "s", "c", "r", "i", "p", "t", "i", "o", "n">>
\* "wind"
K_wind == <<"w", "i", "n", "d">>
\* "speed"
K_speed == <<"s", "p", "e", "e", "d">>
\* "list"
K_list == <<"l", "i", "s", "t">>
\* "dt"
K_dt == <<"d", "t">>
\* "formatted_time"
K_formatted_time == <<"f", "o", "r", "m", "a", "t", "t", "e", "d", "_", "t", "i", "m", "e">>
\* "metric"
S_metric == <<"m", "e", "t", "r", "i", "c">>
\* "None"
S_None == <<"N", "o", "n", "e">>
\* "list index out of range"
S_ListIndexOutOfRange == <<"l", "i", "s", "t", " ", "i", "n", "d", "e", "x", " ", "o", "u",
    "t", " ", "o", "f", " ", "r", "a", "n", "g", "e">>
\* "'NoneType' object is not subscriptable"
S_NoneNotSubscriptable == <<"'", "N", "o", "n", "e", "T", "y", "p", "e", "'", " ", "o", "b",
    "j", "e", "c", "t", " ", "i", "s", " ", "n", "o", "t", " ", "s", "u", "b", "s", "c", "r",
    "i", "p", "t", "a", "b", "l", "e">>
\* "Weather in "
S_WeatherIn == <<"W", "e", "a", "t", "h", "e", "r", " ", "i", "n", " ">>
\* ", "
S_CommaSpace == <<",", " ">>
\* ": "
S_ColonSpace == <<":", " ">>
\* ". Temperature: "
S_Temperature == <<".", " ", "T", "e", "m", "p", "e", "r", "a", "t", "u", "r", "e", ":", " ">>
\* " (feels like "
S_FeelsLike == <<" ", "(", "f", "e", "e", "l", "s", " ", "l", "i", "k", "e", " ">>
\* "). Humidity: "
S_Humidity == <<")", ".", " ", "H", "u", "m", "i", "d", "i", "t", "y", ":", " ">>
\* "%. Wind speed: "
S_WindSpeed == <<"%", ".", " ", "W", "i", "n", "d", " ", "s", "p", "e", "e", "d", ":", " ">>
\* "°C"
S_DegC == <<"°", "C">>
\* "°F"
S_DegF == <<"°", "F">>
\* "m/s"
S_ms == <<"m", "/", "s">>
\* "mph"
S_mph == <<"m", "p", "h">>
\* "'NoneType' object is not iterable"
S_NoneNotIterable == <<"'", "N", "o", "n", "e", "T", "y", "p", "e", "'", " ", "o", "b", "j",
    "e", "c", "t", " ", "i", "s", " ", "n", "o", "t", " ", "i", "t", "e", "r", "a", "b", "l",
    "e">>
\* "heavy winter coat"
I_HeavyWinterCoat == <<"h", "e", "a", "v", "y", " ", "w", "i", "n", "t", "e", "r", " ", "c",
    "o", "a", "t">>
\* "hat, scarf, and gloves"
I_HatScarfGloves == <<"h", "a", "t", ",", " ", "s", "c", "a", "r", "f", ",", " ", "a", "n",
    "d", " ", "g", "l", "o", "v", "e", "s">>
\* "thermal layers"
I_ThermalLayers == <<"t", "h", "e", "r", "m", "a", "l", " ", "l", "a", "y", "e", "r", "s">>
\* "insulated boots"
I_InsulatedBoots == <<"i", "n", "s", "u", "l", "a", "t", "e", "d", " ", "b", "o", "o", "t", "s">>
\* "winter coat or heavy jacket"
I_WinterCoat == <<"w", "i", "n", "t", "e", "r", " ", "c", "o", "a", "t", " ", "o", "r", " ",
    "h", "e", "a", "v", "y", " ", "j", "a", "c", "k", "e", "t">>
\* "hat and gloves"
I_HatGloves == <<"h", "a", "t", " ", "a", "n", "d", " ", "g", "l", "o", "v", "e", "s">>
\* "warm layers"
I_WarmLayers == <<"w", "a", "r", "m", " ", "l", "a", "y", "e", "r", "s">>
\* "light jacket or heavy sweater"
I_LightJacket == <<"l", "i", "g", "h", "t", " ", "j", "a", "c", "k", "e", "t", " ", "o", "r",
    " ", "h", "e", "a", "v", "y", " ", "s", "w", "e", "a", "t", "e", "r">>
\* "long sleeves"
I_LongSleeves == <<"l", "o", "n", "g", " ", "s", "l", "e", "e", "v", "e", "s">>
\* "light sweater or long-sleeved shirt"
I_LightSweater == <<"l", "i", "g", "h", "t", " ", "s", "w", "e", "a", "t", "e", "r", " ", "o",
    "r", " ", "l", "o", "n", "g", "-", "s", "l", "e", "e", "v", "e", "d", " ", "s", "h", "i",
    "r", "t">>
\* "t-shirt or light top"
I_TShirt == <<"t", "-", "s", "h", "i", "r", "t", " ", "o", "r", " ", "l", "i", "g", "h", "t",
    " ", "t", "o", "p">>
\* "light pants or jeans"
I_LightPants == <<"l", "i", "g", "h", "t", " ", "p", "a", "n", "t", "s", " ", "o", "r", " ",
    "j", "e", "a", "n", "s">>
\* "light, breathable clothing"
I_Breathable == <<"l", "i", "g", "h", "t", ",", " ", "b", "r", "e", "a", "t", "h", "a", "b",
    "l", "e", " ", "c", "l", "o", "t", "h", "i", "n", "g">>
\* "shorts or light pants"
I_Shorts == <<"s", "h", "o", "r", "t", "s", " ", "o", "r", " ", "l", "i", "g", "h", "t", " ",
    "p", "a", "n", "t", "s">>
\* "sun protection"
I_SunProtection == <<"s", "u", "n", " ", "p", "r", "o", "t", "e", "c", "t", "i", "o", "n">>
\* "raincoat or umbrella"
I_Raincoat == <<"r", "a", "i", "n", "c", "o", "a", "t", " ", "o", "r", " ", "u", "m", "b", "r",
    "e", "l", "l", "a">>
\* "waterproof shoes"
I_WaterproofShoes == <<"w", "a", "t", "e", "r", "p", "r", "o", "o", "f", " ", "s", "h", "o",
    "e", "s">>
\* "waterproof boots"
I_WaterproofBoots == <<"w", "a", "t", "e", "r", "p", "r", "o", "o", "f", " ", "b", "o", "o",
    "t", "s">>
\* "warm, waterproof jacket"
I_WaterproofJacket == <<"w", "a", "r", "m", ",", " ", "w", "a", "t", "e", "r", "p", "r", "o",
    "o", "f", " ", "j", "a", "c", "k", "e", "t">>
\* "stay indoors if possible"
I_StayIndoors == <<"s", "t", "a", "y", " ", "i", "n", "d", "o", "o", "r", "s", " ", "i", "f",
    " ", "p", "o", "s", "s", "i", "b", "l", "e">>
\* "raincoat and umbrella if you must go out"
I_RaincoatMustGo == <<"r", "a", "i", "n", "c", "o", "a", "t", " ", "a", "n", "d", " ", "u",
    "m", "b", "r", "e", "l", "l", "a", " ", "i", "f", " ", "y", "o", "u", " ", "m", "u", "s",
    "t", " ", "g", "o", " ", "o", "u", "t">>
\* "sunglasses"
I_Sunglasses == <<"s", "u", "n", "g", "l", "a", "s", "s", "e", "s">>
\* "sunscreen"
I_Sunscreen == <<"s", "u", "n", "s", "c", "r", "e", "e", "n">>
\* "hat for sun protection"
I_SunHat == <<"h", "a", "t", " ", "f", "o", "r", " ", "s", "u", "n", " ", "p", "r", "o", "t",
    "e", "c", "t", "i", "o", "n">>
\* "windbreaker or wind-resistant jacket"
I_WindbreakerJacket == <<"w", "i", "n", "d", "b", "r", "e", "a", "k", "e", "r", " ", "o", "r",
    " ", "w", "i", "n", "d", "-", "r", "e", "s", "i", "s", "t", "a", "n", "t", " ", "j", "a",
    "c", "k", "e", "t">>
\* "windbreaker"
I_Windbreaker == <<"w", "i", "n", "d", "b", "r", "e", "a", "k", "e", "r">>
\* "rain"
S_rain == <<"r", "a", "i", "n">>
\* "drizzle"
S_drizzle == <<"d", "r", "i", "z", "z", "l", "e">>
\* "shower"
S_shower == <<"s", "h", "o", "w", "e", "r">>
\* "snow"
S_snow == <<"s", "n", "o", "w">>
\* "sleet"
S_sleet == <<"s", "l", "e", "e", "t">>
\* "thunderstorm"
S_thunderstorm == <<"t", "h", "u", "n", "d", "e", "r", "s", "t", "o", "r", "m">>
\* "clear"
S_clear == <<"c", "l", "e", "a", "r">>
\* "Morning"
S_Morning == <<"M", "o", "r", "n", "i", "n", "g">>
\* "Afternoon"
S_Afternoon == <<"A", "f", "t", "e", "r", "n", "o", "o", "n">>
\* "Evening"
S_Evening == <<"E", "v", "e", "n", "i", "n", "g">>
\* "I can't provide clothing recommendations without weather data."
MsgNoWeatherData == <<"I", " ", "c", "a", "n", "'", "t", " ", "p", "r", "o", "v", "i", "d",
    "e", " ", "c", "l", "o", "t", "h", "i", "n", "g", " ", "r", "e", "c", "o", "m", "m", "e",
    "n", "d", "a", "t", "i", "o", "n", "s", " ", "w", "i", "t", "h", "o", "u", "t", " ", "w",
    "e", "a", "t", "h", "e", "r", " ", "d", "a", "t", "a", ".">>
\* "Error generating clothing recommendations: "
S_ErrClothing == <<"E", "r", "r", "o", "r", " ", "g", "e", "n", "e", "r", "a", "t", "i", "n",
    "g", " ", "c", "l", "o", "t", "h", "i", "n", "g", " ", "r", "e", "c", "o", "m", "m", "e",
    "n", "d", "a", "t", "i", "o", "n", "s", ":", " ">>
\* "Clothing recommendations:\n\n"
S_ClothingHeader == <<"C", "l", "o", "t", "h", "i", "n", "g", " ", "r", "e", "c", "o", "m",
    "m", "e", "n", "d", "a", "t", "i", "o", "n", "s", ":", "\n", "\n">>
\* "For now: "
S_ForNow == <<"F", "o", "r", " ", "n", "o", "w", ":", " ">>
\* "For the rest of the day:\n"
S_RestOfDay == <<"F", "o", "r", " ", "t", "h", "e", " ", "r", "e", "s", "t", " ", "o", "f",
    " ", "t", "h", "e", " ", "d", "a", "y", ":", "\n">>
\* "string indices must be integers, not 'str'"
S_StrIndices == <<"s", "t", "r", "i", "n", "g", " ", "i", "n", "d", "i", "c", "e", "s", " ",
    "m", "u", "s", "t", " ", "b", "e", " ", "i", "n", "t", "e", "g", "e", "r", "s", ",", " ",
    "n", "o", "t", " ", "'", "s", "t", "r", "'">>
\* "'<' not supported between instances of '"
S_NotSupported1 == <<"'", "<", "'", " ", "n", "o", "t", " ", "s", "u", "p", "p", "o", "r", "t",
    "e", "d", " ", "b", "e", "t", "w", "e", "e", "n", " ", "i", "n", "s", "t", "a", "n", "c",
    "e", "s", " ", "o", "f", " ", "'">>
\* "' and 'int'"
S_NotSupported2 == <<"'", " ", "a", "n", "d", " ", "'", "i", "n", "t", "'">>
\* "'>' not supported between instances of '"
S_GtNotSupported1 == <<"'", ">", "'", " ", "n", "o", "t", " ", "s", "u", "p", "p", "o", "r",
    "t", "e", "d", " ", "b", "e", "t", "w", "e", "e", "n", " ", "i", "n", "s", "t", "a", "n",
    "c", "e", "s", " ", "o", "f", " ", "'">>
\* "NoneType"
S_NoneType == <<"N", "o", "n", "e", "T", "y", "p", "e">>
\* "str"
S_str == <<"s", "t", "r">>
\* "'NoneType' object has no attribute 'lower'"
S_NoLower == <<"'", "N", "o", "n", "e", "T", "y", "p", "e", "'", " ", "o", "b", "j", "e", "c",
    "t", " ", "h", "a", "s", " ", "n", "o", " ", "a", "t", "t", "r", "i", "b", "u", "t", "e",
    " ", "'", "l", "o", "w", "e", "r", "'">>
\* the sections and keys of the configuration
\* "api"
C_api == <<"a", "p", "i">>
\* "port"
C_port == <<"p", "o", "r", "t">>
\* "ollama"
C_ollama == <<"o", "l", "l", "a", "m", "a">>
\* "base_url"
C_base_url == <<"b", "a", "s", "e", "_", "u", "r", "l">>
\* "default_model"
C_default_model == <<"d", "e", "f", "a", "u", "l", "t", "_", "m", "o", "d", "e", "l">>
\* "weather"
C_weather == <<"w", "e", "a", "t", "h", "e", "r">>
\* "api_key"
C_api_key == <<"a", "p", "i", "_", "k", "e", "y">>
\* "units"
C_units == <<"u", "n", "i", "t", "s">>
\* dotted keys
\* "api.port"
CK_api_port == <<"a", "p", "i", ".", "p", "o", "r", "t">>
\* "ollama.base_url"
CK_ollama_base_url == <<"o", "l", "l", "a", "m", "a", ".", "b", "a", "s", "e", "_", "u", "r",
    "l">>
\* "ollama.default_model"
CK_ollama_default_model == <<"o", "l", "l", "a", "m", "a", ".", "d", "e", "f", "a", "u", "l",
    "t", "_", "m", "o", "d", "e", "l">>
\* "weather.api_key"
CK_weather_api_key == <<"w", "e", "a", "t", "h", "e", "r", ".", "a", "p", "i", "_", "k", "e",
    "y">>
\* "weather.units"
CK_weather_units == <<"w", "e", "a", "t", "h", "e", "r", ".", "u", "n", "i", "t", "s">>
\* "api"
CK_api == <<"a", "p", "i">>
\* "nonexistent.key"
CK_nonexistent == <<"n", "o", "n", "e", "x", "i", "s", "t", "e", "n", "t", ".", "k", "e", "y">>
\* "api.port.x"
CK_too_long == <<"a", "p", "i", ".", "p", "o", "r", "t", ".", "x">>
\* values
\* "llama3"
V_llama3 == <<"l", "l", "a", "m", "a", "3">>
\* "mistral"
V_mistral == <<"m", "i", "s", "t", "r", "a", "l">>
\* "http://localhost:11434"
V_localhost == <<"h", "t", "t", "p", ":", "/", "/", "l", "o", "c", "a", "l", "h", "o", "s",
    "t", ":", "1", "1", "4", "3", "4">>
\* "http://ollama:11434"
V_otherhost == <<"h", "t", "t", "p", ":", "/", "/", "o", "l", "l", "a", "m", "a", ":", "1",
    "1", "4", "3", "4">>
\* "9000"
V_9000 == <<"9", "0", "0", "0">>
\* " 9000 "
V_padded == <<" ", "9", "0", "0", "0", " ">>
\* "abc"
V_abc == <<"a", "b", "c">>
\* "test_key"
V_testkey == <<"t", "e", "s", "t", "_", "k", "e", "y">>
\* "default"
V_default == <<"d", "e", "f", "a", "u", "l", "t">>
\* "invalid literal for int() with base 10: "
X_invalid_int == <<"i", "n", "v", "a", "l", "i", "d", " ", "l", "i", "t", "e", "r", "a", "l",
    " ", "f", "o", "r", " ", "i", "n", "t", "(", ")", " ", "w", "i", "t", "h", " ", "b", "a",
    "s", "e", " ", "1", "0", ":", " ">>
\* "' object does not support item assignment"
X_no_item_assignment == <<"'", " ", "o", "b", "j", "e", "c", "t", " ", "d", "o", "e", "s", " ",
    "n", "o", "t", " ", "s", "u", "p", "p", "o", "r", "t", " ", "i", "t", "e", "m", " ", "a",
    "s", "s", "i", "g", "n", "m", "e", "n", "t">>
\* "' object has no attribute 'setdefault'"
X_no_setdefault == <<"'", " ", "o", "b", "j", "e", "c", "t", " ", "h", "a", "s", " ", "n", "o",
    " ", "a", "t", "t", "r", "i", "b", "u", "t", "e", " ", "'", "s", "e", "t", "d", "e", "f",
    "a", "u", "l", "t", "'">>
(***************************************************************************)
(* Python values.  A dict is a function from key strings to values, a list *)
(* a sequence of values; a float is kept in tenths.                        *)
(***************************************************************************)
PyNone == [t |-> "none"]

PyStr(s) == [t |-> "str", v |-> s]

PyInt(n) == [t |-> "int", v |-> n]

\* the float n/10
PyFloat(n) == [t |-> "float", v |-> n]

PyBool(b) == [t |-> "bool", v |-> b]

PyList(items) == [t |-> "list", v |-> items]

PyDict(d) == [t |-> "dict", v |-> d]

\* the sequence elements of a tuple (lat, lon)
PyTuple(items) == [t |-> "tuple", v |-> items]

IsStr(x) == x.t = "str"

IsDict(x) == x.t = "dict"

IsNumber(x) == x.t \in {"int", "float"}

\* bool(x): the truth value Python gives x in  if x / not x
Truthy(x) ==
    CASE x.t = "none" -> FALSE
      [] x.t = "str" -> x.v # <<>>
      [] x.t = "int" -> x.v # 0
      [] x.t = "float" -> x.v # 0
      [] x.t = "bool" -> x.v
      [] x.t = "list" -> x.v # <<>>
      [] x.t = "tuple" -> x.v # <<>>
      [] x.t = "dict" -> DOMAIN x.v # {}
      [] OTHER -> TRUE

\* a number in tenths, for comparisons between int and float
Tenths(x) == IF x.t = "int" THEN 10 * x.v ELSE x.v

(***************************************************************************)
(* json.loads, for JSON without string escapes and without exponents, with *)
(* at most one fractional digit.  A parse is [ok, v, p]: whether it        *)
(* succeeded, the value, and the index after it.  A failure is the         *)
(* JSONDecodeError json.loads raises.                                      *)
(***************************************************************************)
JsonWs == {" ", "\t", "\n"}

JsonFail == [v |-> PyNone, ok |-> FALSE, p |-> 0]

JsonOk(val, next) == [v |-> val, ok |-> TRUE, p |-> next]

SkipWs(s, i) == i + RunLen(s, i, JsonWs)

\* a string literal starting at s[i] = '"'; a raw control character is rejected
JsonString(s, i) ==
    LET Literal(n) ==
            IF i + n + 1 > Len(s) THEN JsonFail
            ELSE IF \E k \in (i + 1)..(i + n) : s[k] \in {"\n", "\t", "\\"} THEN JsonFail
            ELSE JsonOk(PyStr(SubSeq(s, i + 1, i + n)), i + n + 2)
    IN  Literal(RunLenNot(s, i + 1, {"\""}))

RECURSIVE DigitsVal(_)
DigitsVal(ds) ==
    IF ds = <<>> THEN 0 ELSE 10 * DigitsVal(SubSeq(ds, 1, Len(ds) - 1)) + DigitVal(ds[Len(ds)])

\* a number starting at s[i]:  -?(0|[1-9][0-9]*)(\.[0-9])?
JsonNumber(s, i) ==
    LET \* the digits of the integer part are s[a..a+n-1]
        Number(sign, a, n) ==
            IF n = 0 THEN JsonFail
            ELSE IF a + n + 1 <= Len(s) /\ s[a + n] = "." /\ s[a + n + 1] \in DigitSet
                 THEN JsonOk(PyFloat(sign * (10 * DigitsVal(SubSeq(s, a, a + n - 1))
                                             + DigitVal(s[a + n + 1]))), a + n + 2)
                 ELSE JsonOk(PyInt(sign * DigitsVal(SubSeq(s, a, a + n - 1))), a + n)
        Unsigned(sign, a) ==
            IF a <= Len(s) /\ s[a] = "0" THEN Number(sign, a, 1)
            ELSE Number(sign, a, RunLen(s, a, DigitSet))
    IN  IF i <= Len(s) /\ s[i] = "-" THEN Unsigned(-1, i + 1) ELSE Unsigned(1, i)

RECURSIVE JsonValue(_, _), JsonMembers(_, _, _), JsonElements(_, _, _)

\* the members of an object after "{" or ",", added to the dict d
JsonMembers(s, i, d) ==
    LET After(e, d2) ==
            IF e > Len(s) THEN JsonFail
            ELSE IF s[e] = "}" THEN JsonOk(PyDict(d2), e + 1)
            ELSE IF s[e] = "," THEN JsonMembers(s, e + 1, d2)
            ELSE JsonFail
        Member(name, val) ==
            IF val.ok
            THEN After(SkipWs(s, val.p),
                       [x \in DOMAIN d \cup {name} |-> IF x = name THEN val.v ELSE d[x]])
            ELSE JsonFail
        Colon(name, c) ==
            IF c <= Len(s) /\ s[c] = ":" THEN Member(name, JsonValue(s, c + 1)) ELSE JsonFail
        Key(key) == IF key.ok THEN Colon(key.v.v, SkipWs(s, key.p)) ELSE JsonFail
        Start(k) == IF k <= Len(s) /\ s[k] = "\"" THEN Key(JsonString(s, k)) ELSE JsonFail
    IN  Start(SkipWs(s, i))

\* the elements of an array after "[" or ",", appended to items
JsonElements(s, i, items) ==
    LET After(e, items2) ==
            IF e > Len(s) THEN JsonFail
            ELSE IF s[e] = "]" THEN JsonOk(PyList(items2), e + 1)
            ELSE IF s[e] = "," THEN JsonElements(s, e + 1, items2)
            ELSE JsonFail
        Element(val) ==
            IF val.ok THEN After(SkipWs(s, val.p), Append(items, val.v)) ELSE JsonFail
    IN  Element(JsonValue(s, i))

JsonValue(s, i) ==
    LET Object(a, b) ==
            IF b <= Len(s) /\ s[b] = "}" THEN JsonOk(PyDict(<<>>), b + 1)
            ELSE JsonMembers(s, a + 1, <<>>)
        Array(a, b) ==
            IF b <= Len(s) /\ s[b] = "]" THEN JsonOk(PyList(<<>>), b + 1)
            ELSE JsonElements(s, a + 1, <<>>)
        At(a) ==
            IF a > Len(s) THEN JsonFail
            ELSE IF s[a] = "{" THEN Object(a, SkipWs(s, a + 1))
            ELSE IF s[a] = "[" THEN Array(a, SkipWs(s, a + 1))
            ELSE IF s[a] = "\"" THEN JsonString(s, a)
            ELSE IF MatchAt(s, a, <<"n", "u", "l", "l">>) THEN JsonOk(PyNone, a + 4)
            ELSE IF MatchAt(s, a, <<"t", "r", "u", "e">>) THEN JsonOk(PyBool(TRUE), a + 4)
            ELSE IF MatchAt(s, a, <<"f", "a", "l", "s", "e">>) THEN JsonOk(PyBool(FALSE), a + 5)
            ELSE JsonNumber(s, a)
    IN  At(SkipWs(s, i))

\* json.loads(s): [ok |-> FALSE] stands for JSONDecodeError
json_loads(s) ==
    LET Whole(r) == IF r.ok /\ SkipWs(s, r.p) > Len(s) THEN r ELSE JsonFail
    IN  Whole(JsonValue(s, 1))
(***************************************************************************)
(* TextNormalizer                                                          *)
(***************************************************************************)
Interrogatives == <<S_how, S_what, S_when, S_where, S_why, S_is, S_can, S_will, S_should>>

\* a faulty variant of preprocess_query: the "?" is added without looking at the end
PreprocessAlwaysAsks(query) ==
    LET q == CollapseWhitespace(Strip(query))
    IN  IF \E k \in DOMAIN Interrogatives : StartsWith(LowerStr(q), Interrogatives[k])
        THEN q \o <<"?">>
        ELSE q

preprocess_query(query) ==
    LET q == CollapseWhitespace(Strip(query))
    IN  IF (\E k \in DOMAIN Interrogatives : StartsWith(LowerStr(q), Interrogatives[k]))
           /\ ~EndsWith(q, <<"?">>)
        THEN q \o <<"?">>
        ELSE q

(***************************************************************************)
(* Regular-expression searches.  A search result is [found, g]: whether    *)
(* the pattern matched and the text of the group the code reads.           *)
(***************************************************************************)
NoMatch == [found |-> FALSE, g |-> <<>>]

Match(text) == [found |-> TRUE, g |-> text]

\* re.search(r'\{.*\}', s, re.DOTALL): from the first "{" to the last "}"
BraceSearch(s) ==
    LET opens == {i \in 1..Len(s) : s[i] = "{"}
        closes == {i \in 1..Len(s) : s[i] = "}"}
    IN  IF opens = {} \/ closes = {} THEN NoMatch
        ELSE IF Max(closes) < Min(opens) THEN NoMatch
        ELSE Match(SubSeq(s, Min(opens), Max(closes)))

\* the characters of ["\s:] and of [^"}\s]
KeySeparators == Whitespace \cup {"\"", ":"}

ValueStops == Whitespace \cup {"\"", "}"}

\* group 1 of  ([^"}\s]+|"[^"]+")  tried at s[g]
KeyValueGroupAt(s, g) ==
    LET n == RunLenNot(s, g, ValueStops)
        r == RunLenNot(s, g + 1, {"\""})
    IN  IF n >= 1 THEN Match(SubSeq(s, g, g + n - 1))
        ELSE IF g <= Len(s) /\ s[g] = "\"" /\ r >= 1 /\ g + r + 1 <= Len(s)
             THEN Match(SubSeq(s, g, g + r + 1))
             ELSE NoMatch

\* the match of  location["\s:]+([^"}\s]+|"[^"]+")  with "location" at s[p]:
\* the separators are taken greedily and given back one at a time
KeyValueAt(s, p) ==
    LET a == p + Len(S_location)
        m == RunLen(s, a, KeySeparators)
        ks == {k \in 1..m : KeyValueGroupAt(s, a + k).found}
    IN  IF ~MatchAtNoCase(s, p, S_location) \/ ks = {} THEN NoMatch
        ELSE KeyValueGroupAt(s, a + Max(ks))

\* re.search(r'location["\s:]+([^"}\s]+|"[^"]+")(?:\s*})?', s, re.IGNORECASE)
KeyValueSearch(s) ==
    LET ps == {p \in 1..Len(s) : KeyValueAt(s, p).found}
    IN  IF ps = {} THEN NoMatch ELSE KeyValueAt(s, Min(ps))

Prepositions == <<S_in, S_for, S_at, S_of>>

PlaceChars == AlphaSet \cup Whitespace \cup {","}

PlaceEnds == Whitespace \cup {".", "?"}

\* the lengths n for which ([A-Za-z\s,]+)(?:\s|$|\.|\?) matches with the group s[g..g+n-1]
PlaceLengths(s, g) ==
    {n \in 1..RunLen(s, g, PlaceChars) : g + n > Len(s) \/ s[g + n] \in PlaceEnds}

\* the match of  \s+([A-Za-z\s,]+)(?:\s|$|\.|\?)  after the preposition that ends before
\* s[b]: both repetitions are greedy, the earlier one gives back last
PlaceAfter(s, b) ==
    LET m == RunLen(s, b, Whitespace)
        ks == {k \in 1..m : PlaceLengths(s, b + k) # {}}
    IN  IF ks = {} THEN NoMatch
        ELSE LET g == b + Max(ks)
             IN  Match(SubSeq(s, g, g + Max(PlaceLengths(s, g)) - 1))

\* the match of the whole pattern with "weather" at s[p]
WeatherAt(s, p) ==
    LET a == p + Len(S_weather)
        m == RunLen(s, a, Whitespace)
        preps == {k \in DOMAIN Prepositions :
                     /\ MatchAtNoCase(s, a + m, Prepositions[k])
                     /\ PlaceAfter(s, a + m + Len(Prepositions[k])).found}
    IN  IF ~MatchAtNoCase(s, p, S_weather) \/ m = 0 \/ preps = {} THEN NoMatch
        ELSE PlaceAfter(s, a + m + Len(Prepositions[Min(preps)]))

\* re.search(r'weather\s+(?:in|for|at|of)\s+([A-Za-z\s,]+)(?:\s|$|\.|\?)', s, re.IGNORECASE)
WeatherSearch(s) ==
    LET ps == {p \in 1..Len(s) : WeatherAt(s, p).found}
    IN  IF ps = {} THEN NoMatch ELSE WeatherAt(s, Min(ps))

\* re.search(r'([A-Za-z]+)', s): the first run of letters
CitySearch(s) ==
    LET ps == {p \in 1..Len(s) : IsAlpha(s[p])}
    IN  IF ps = {} THEN NoMatch
        ELSE Match(SubSeq(s, Min(ps), Min(ps) + RunLen(s, Min(ps), AlphaSet) - 1))

(***************************************************************************)
(* LocationExtractor                                                       *)
(***************************************************************************)
\* the JSON step: the value of "location" in the brace-delimited substring, when it
\* parses to an object that has the key; every exception is swallowed
ExtractJsonStep(text) ==
    LET Value(data) ==
            IF data.ok /\ IsDict(data.v) /\ S_location \in DOMAIN data.v.v
            THEN [v |-> data.v.v[S_location], found |-> TRUE]
            ELSE [v |-> PyNone, found |-> FALSE]
        Braces(m) == IF m.found THEN Value(json_loads(m.g)) ELSE [v |-> PyNone, found |-> FALSE]
    IN  Braces(BraceSearch(text))

\* returns a Python value: the location, or None
extract_location_from_text(text) ==
    LET Pattern2(m) == IF m.found THEN PyStr(Strip(m.g)) ELSE PyNone
        Pattern1(m) ==
            IF m.found THEN PyStr(StripChars(m.g, {"\""})) ELSE Pattern2(WeatherSearch(text))
        Json(r) == IF r.found THEN r.v ELSE Pattern1(KeyValueSearch(text))
    IN  Json(ExtractJsonStep(text))

(***************************************************************************)
(* LocationNormalizer                                                      *)
(***************************************************************************)
\* a faulty variant of Dedupe: every copy is kept
KeepCopies(vars) == vars

\* lines 352-355: the list without the later copies of an element
RECURSIVE Dedupe(_)
Dedupe(vars) ==
    IF vars = <<>> THEN <<>>
    ELSE LET init == Dedupe(SubSeq(vars, 1, Len(vars) - 1))
             last == vars[Len(vars)]
         IN  IF \E i \in DOMAIN init : init[i] = last THEN init ELSE Append(init, last)

\* location is a Python str
normalize_location(location) ==
    LET loc == Strip(location)
        clean == RemoveSpecial(loc)
        parts == SplitWhitespace(loc)
        city_country == SplitOn(loc, ",")
        v1 == <<loc>>
        v2 == IF clean # loc THEN Append(v1, clean) ELSE v1
        v3 == IF Len(parts) > 1 THEN Append(v2, parts[1]) ELSE v2
        v4 == IF Len(parts) > 1 /\ Contains(loc, <<",">>) /\ Len(city_country) = 2
              THEN v3 \o <<Strip(city_country[1]), Strip(city_country[2])>>
              ELSE v3
    IN  IF location = <<>> THEN <<>> ELSE Dedupe(v4)

(***************************************************************************)
(* Exceptions and subscripting.  An evaluation that may raise is a record  *)
(* [exc, msg, v]: exc is "" and v the value, or exc names the exception    *)
(* class and msg is str(e).                                                *)
(***************************************************************************)
Returned(val) == [v |-> val, exc |-> "", msg |-> <<>>]

Raised(cls, text) == [v |-> PyNone, exc |-> cls, msg |-> text]

\* str(KeyError(key)) is repr(key)
KeyErrorText(key) == <<"'">> \o key \o <<"'">>

\* x[key] for a str key: only a dict can be subscripted so
GetKey(x, key) ==
    IF x.t = "dict"
    THEN IF key \in DOMAIN x.v THEN Returned(x.v[key]) ELSE Raised("KeyError", KeyErrorText(key))
    ELSE IF x.t = "none" THEN Raised("TypeError", S_NoneNotSubscriptable)
    ELSE Raised("TypeError", <<>>)

\* x[0]
GetFirst(x) ==
    IF x.t = "list"
    THEN IF x.v # <<>> THEN Returned(x.v[1]) ELSE Raised("IndexError", S_ListIndexOutOfRange)
    ELSE IF x.t = "dict" THEN Raised("KeyError", <<"0">>)
    ELSE IF x.t = "none" THEN Raised("TypeError", S_NoneNotSubscriptable)
    ELSE Raised("TypeError", <<>>)

\* r[key] for an evaluation r: the exception of r, or the subscript of its value
ThenKey(r, key) == IF r.exc # "" THEN r ELSE GetKey(r.v, key)

\* r[0] for an evaluation r
ThenFirst(r) == IF r.exc # "" THEN r ELSE GetFirst(r.v)

\* x[k1][k2]
GetKey2(x, k1, k2) == ThenKey(GetKey(x, k1), k2)

\* x[k1][0][k2]
GetKeyFirstKey(x, k1, k2) == ThenKey(ThenFirst(GetKey(x, k1)), k2)

\* the first evaluation of a sequence that raised, or the last one
FirstRaised(evals) ==
    LET bad == {i \in DOMAIN evals : evals[i].exc # ""}
    IN  IF bad = {} THEN evals[Len(evals)] ELSE evals[Min(bad)]

\* dict.get(key): the value or None; x must be a dict
DictGet(x, key) == IF key \in DOMAIN x.v THEN x.v[key] ELSE PyNone

\* str(x) as an f-string renders it, for None, str, int and float
PyFormat(x) ==
    LET Decimal(sign, n) == sign \o NatToStr(n \div 10) \o <<".">> \o NatToStr(n % 10)
    IN  CASE x.t = "str" -> x.v
          [] x.t = "int" -> IntToStr(x.v)
          [] x.t = "float" -> IF x.v < 0 THEN Decimal(<<"-">>, -x.v) ELSE Decimal(<<>>, x.v)
          [] OTHER -> S_None

(***************************************************************************)
(* WeatherClient                                                           *)
(***************************************************************************)
\* the field reads of format_weather_data, in the order the code makes them
WeatherFields(data) ==
    <<GetKey(data, K_name), GetKey2(data, K_sys, K_country), GetKey2(data, K_main, K_temp),
      GetKey2(data, K_main, K_feels_like), GetKeyFirstKey(data, K_weather, K_description),
      GetKey2(data, K_main, K_humidity), GetKey2(data, K_wind, K_speed)>>

\* an evaluation: the text, or the exception that is not a KeyError
format_weather_data(data, units) ==
    LET temp_unit == IF units = S_metric THEN S_DegC ELSE S_DegF
        wind_unit == IF units = S_metric THEN S_ms ELSE S_mph
        Text(f) ==
            S_WeatherIn \o PyFormat(f[1].v) \o S_CommaSpace \o PyFormat(f[2].v)
            \o S_ColonSpace \o PyFormat(f[5].v)
            \o S_Temperature \o PyFormat(f[3].v) \o temp_unit
            \o S_FeelsLike \o PyFormat(f[4].v) \o temp_unit
            \o S_Humidity \o PyFormat(f[6].v)
            \o S_WindSpeed \o PyFormat(f[7].v) \o <<" ">> \o wind_unit \o <<".">>
        Formatted(f, bad) ==
            IF bad.exc = "KeyError" THEN Returned(PyStr(S_ErrParseWeather \o bad.msg))
            ELSE IF bad.exc # "" THEN bad
            ELSE Returned(PyStr(Text(f)))
        Fields(f) == Formatted(f, FirstRaised(f))
    IN  Fields(WeatherFields(data))

\* a faulty variant of FetchCaught: except requests.exceptions.RequestException
FetchCaughtRequestErrors(cls) == cls \in {"HTTPError", "ConnectionError"}

\* except Exception as e: the clause of the two fetch functions catches every class
FetchCaught(cls) == TRUE

\* the requests a fetch function issues: none without a key, else one to its endpoint
FetchRequests(key, url) == IF ~Truthy(key) THEN <<>> ELSE <<url>>

\* What requests.get(...), raise_for_status() and response.json() give: an evaluation
\* that raised (transport error, non-2xx status, a body that is not JSON) or the payload.
\* An evaluation whose value is the pair (weather_text, raw_weather_data).
get_weather_by_coordinates(key, units, http) ==
    LET Except(e) ==
            IF FetchCaught(e.exc) THEN Returned(PyTuple(<<PyStr(S_ErrFetchWeather \o e.msg), PyNone>>))
            ELSE e
        Formatted(r) == IF r.exc # "" THEN Except(r) ELSE Returned(PyTuple(<<r.v, http.v>>))
    IN  IF ~Truthy(key) THEN Returned(PyTuple(<<PyStr(MsgNoApiKey), PyNone>>))
        ELSE IF http.exc # "" THEN Except(http)
        ELSE Formatted(format_weather_data(http.v, units))
(***************************************************************************)
(* Time.  A timestamp counts hours of local time, so that a day has        *)
(* HoursPerDay of them; datetime.fromtimestamp(ts) has the date            *)
(* ts \div HoursPerDay and the hour ts % HoursPerDay.                      *)
(***************************************************************************)
HoursPerDay == 24

DateOf(ts) == ts \div HoursPerDay

HourOf(ts) == ts % HoursPerDay

\* strftime("%H:%M")
FormatTime(ts) ==
    (IF HourOf(ts) < 10 THEN <<"0">> ELSE <<>>) \o NatToStr(HourOf(ts)) \o <<":", "0", "0">>

\* the entry with its formatted_time added
Marked(entry, ts) ==
    PyDict([k \in DOMAIN entry.v \cup {K_formatted_time} |->
               IF k = K_formatted_time THEN PyStr(FormatTime(ts)) ELSE entry.v[k]])

\* a faulty variant of RestOfToday: the entry at the current instant is kept too
RestOfTodayInclusive(ts, now) == DateOf(ts) = DateOf(now) /\ ts >= now

\* entry_date == current_date and datetime.fromtimestamp(timestamp) > datetime.now()
RestOfToday(ts, now) == DateOf(ts) = DateOf(now) /\ ts > now

\* the loop of extract_today_forecast over entries[i..]: an evaluation whose value is the
\* list of the entries kept, each with its formatted_time
RECURSIVE TodayEntries(_, _, _)
TodayEntries(entries, i, now) ==
    LET Kept(entry, ts, rest) ==
            IF rest.exc # "" THEN rest
            ELSE IF RestOfToday(ts, now)
                 THEN Returned(<<Marked(entry, ts)>> \o rest.v)
                 ELSE rest
        Entry(entry, ts) ==
            IF ts.exc # "" THEN ts
            ELSE IF ts.v.t # "int" THEN Raised("TypeError", <<>>)
            ELSE Kept(entry, ts.v.v, TodayEntries(entries, i + 1, now))
    IN  IF i > Len(entries) THEN Returned(<<>>)
        ELSE Entry(entries[i], GetKey(entries[i], K_dt))

\* an evaluation whose value is a Python list; forecast_data is None or a dict whose
\* "list", when present, is None or a list
extract_today_forecast(forecast_data, now) ==
    LET Listed(r) == IF r.exc # "" THEN r ELSE Returned(PyList(r.v))
    IN  IF ~Truthy(forecast_data) \/ K_list \notin DOMAIN forecast_data.v
        THEN Returned(PyList(<<>>))
        ELSE IF forecast_data.v[K_list].t # "list" THEN Raised("TypeError", S_NoneNotIterable)
        ELSE Listed(TodayEntries(forecast_data.v[K_list].v, 1, now))

\* an evaluation whose value is the pair (forecast_data, raw_forecast_data)
get_forecast_by_coordinates(key, units, http, now) ==
    LET Except(e) ==
            IF FetchCaught(e.exc)
            THEN Returned(PyTuple(<<PyStr(S_ErrFetchForecast \o e.msg), PyNone>>))
            ELSE e
        Today(r) == IF r.exc # "" THEN Except(r) ELSE Returned(PyTuple(<<r.v, http.v>>))
    IN  IF ~Truthy(key) THEN Returned(PyTuple(<<PyStr(MsgNoApiKey), PyNone>>))
        ELSE IF http.exc # "" THEN Except(http)
        ELSE Today(extract_today_forecast(http.v, now))

(***************************************************************************)
(* Geocoder, model-estimate tier                                           *)
(***************************************************************************)
\* float(s) for a str s of the form [+-]?digits[.[digit]] with blanks around it:
\* an evaluation that raises ValueError for any other text
FloatOfStr(s) ==
    LET \* the digits x[a..a+n-1] of the integer part, and what follows them
        IntegerPart(x, sign, a, n) ==
            IF n = 0 THEN Raised("ValueError", <<>>)
            ELSE IF a + n > Len(x) \/ (x[a + n] = "." /\ a + n = Len(x))
                 THEN Returned(PyFloat(sign * 10 * DigitsVal(SubSeq(x, a, a + n - 1))))
            ELSE IF x[a + n] = "." /\ a + n + 1 = Len(x) /\ x[a + n + 1] \in DigitSet
                 THEN Returned(PyFloat(sign * (10 * DigitsVal(SubSeq(x, a, a + n - 1))
                                               + DigitVal(x[a + n + 1]))))
            ELSE Raised("ValueError", <<>>)
        Signed(x, sign, a) == IntegerPart(x, sign, a, RunLen(x, a, DigitSet))
        Stripped(x) ==
            IF x # <<>> /\ x[1] = "-" THEN Signed(x, -1, 2)
            ELSE IF x # <<>> /\ x[1] = "+" THEN Signed(x, 1, 2)
            ELSE Signed(x, 1, 1)
    IN  Stripped(Strip(s))

\* the length of the match of  -?\d+\.?\d*  at s[p], 0 when there is none
NumberLenAt(s, p) ==
    LET Fraction(a, n) ==
            IF a + n <= Len(s) /\ s[a + n] = "." THEN 1 + RunLen(s, a + n + 1, DigitSet)
            ELSE 0
        IntegerPart(a, n) == IF n = 0 THEN 0 ELSE (a - p) + n + Fraction(a, n)
        From(a) == IntegerPart(a, RunLen(s, a, DigitSet))
    IN  IF p <= Len(s) /\ s[p] = "-" THEN From(p + 1) ELSE From(p)

NoPair == [found |-> FALSE, g1 |-> <<>>, g2 |-> <<>>]

\* the match of  (-?\d+\.?\d*)[,\s]+(-?\d+\.?\d*)  at s[p]: [found, g1, g2]
PairAt(s, p) ==
    LET Second(n1, q, n2) ==
            IF n2 = 0 THEN NoPair
            ELSE [found |-> TRUE, g1 |-> SubSeq(s, p, p + n1 - 1),
                  g2 |-> SubSeq(s, q, q + n2 - 1)]
        Separators(n1, seps) ==
            IF seps = 0 THEN NoPair
            ELSE Second(n1, p + n1 + seps, NumberLenAt(s, p + n1 + seps))
        First(n1) ==
            IF n1 = 0 THEN NoPair
            ELSE Separators(n1, RunLen(s, p + n1, Whitespace \cup {","}))
    IN  First(NumberLenAt(s, p))

\* re.search(r'(-?\d+\.?\d*)[,\s]+(-?\d+\.?\d*)', s)
PairSearch(s) ==
    LET Leftmost(ps) == IF ps = {} THEN NoPair ELSE PairAt(s, Min(ps))
    IN  Leftmost({p \in 1..Len(s) : PairAt(s, p).found})

\* the coercion of one of latitude and longitude: float(x) when x is a str
CoerceCoordinate(x) == IF IsStr(x) THEN FloatOfStr(x.v) ELSE Returned(x)

\* (lat, lon) read from a parsed dict: an evaluation whose value is the tuple, or None
\* when a key is missing or null
CoordinatesOf(data) ==
    LET Coerced(lat, lon) ==
            IF lat.exc # "" THEN lat
            ELSE IF lon.exc # "" THEN lon
            ELSE Returned(PyTuple(<<lat.v, lon.v>>))
        Both(lat, lon) ==
            IF lat = PyNone \/ lon = PyNone THEN Returned(PyNone)
            ELSE Coerced(CoerceCoordinate(lat), CoerceCoordinate(lon))
    IN  Both(DictGet(data, K_latitude), DictGet(data, K_longitude))

\* the except (json.JSONDecodeError, ValueError) clause: the numeric-pair fallback
RegexCoordinates(response) ==
    LET Floats(lat, lon) ==
            IF lat.exc = "" /\ lon.exc = "" THEN PyTuple(<<lat.v, lon.v>>) ELSE PyNone
        Pair(m) == IF m.found THEN Floats(FloatOfStr(m.g1), FloatOfStr(m.g2)) ELSE PyNone
    IN  Pair(PairSearch(response))

\* the inner try block: the brace-delimited substring, then the whole response.
\* An evaluation: the tuple, None, or the exception that leaves the block.
JsonCoordinates(response) ==
    LET Whole(data) ==
            IF ~data.ok THEN Raised("JSONDecodeError", <<>>)
            ELSE IF ~IsDict(data.v) THEN Raised("AttributeError", <<>>)
            ELSE CoordinatesOf(data.v)
        Found(r) ==
            IF r.exc # "" \/ r.v # PyNone THEN r ELSE Whole(json_loads(response))
        Sub(data) ==
            IF ~data.ok THEN Raised("JSONDecodeError", <<>>)
            ELSE IF ~IsDict(data.v) THEN Raised("AttributeError", <<>>)
            ELSE Found(CoordinatesOf(data.v))
        Braces(m) == IF m.found THEN Sub(json_loads(m.g)) ELSE Whole(json_loads(response))
    IN  Braces(BraceSearch(response))

\* a faulty variant of TierCaught: except (json.JSONDecodeError, ValueError)
TierCaughtParseErrors(cls) == cls \in {"JSONDecodeError", "ValueError"}

\* except Exception as e: the outer clause of llm_geocode_location and the clause in
\* the loop of api_geocode_location catch every class
TierCaught(cls) == TRUE

\* llm is the evaluation of llm.invoke(geocoding_prompt): the text, or an exception.
\* An evaluation whose value is the tuple (lat, lon) or None.
llm_geocode_location(location, llm) ==
    LET Except(e) == IF TierCaught(e.exc) THEN Returned(PyNone) ELSE e
        Parsed(r) ==
            IF r.exc \in {"JSONDecodeError", "ValueError"}
            THEN Returned(RegexCoordinates(llm.v.v))
            ELSE IF r.exc # "" THEN Except(r)
            ELSE r
    IN  IF ~Truthy(location) THEN Returned(PyNone)
        ELSE IF llm.exc # "" THEN Except(llm)
        ELSE Parsed(JsonCoordinates(llm.v.v))
(***************************************************************************)
(* ClothingAdvisor                                                         *)
(***************************************************************************)
\* ", ".join(items)
RECURSIVE Join(_)
Join(items) ==
    IF items = <<>> THEN <<>>
    ELSE IF Len(items) = 1 THEN items[1]
    ELSE items[1] \o S_CommaSpace \o Join(Tail(items))

\* type(x).__name__ in the message of a failed comparison
TypeName(x) == IF x.t = "none" THEN S_NoneType ELSE IF x.t = "str" THEN S_str ELSE x.t

\* the evaluation of  x < n  or  x > n  for an int n: a TypeError unless x is a number
CompareWithInt(x, op1) ==
    IF IsNumber(x) THEN Returned(x)
    ELSE Raised("TypeError", op1 \o TypeName(x) \o S_NotSupported2)

\* x.lower() for the description: an AttributeError unless x is a str
LowerOf(x) ==
    IF x.exc # "" THEN x
    ELSE IF IsStr(x.v) THEN Returned(PyStr(LowerStr(x.v.v)))
    ELSE Raised("AttributeError", S_NoLower)

\* the three reads and the two comparisons made on a snapshot or a forecast entry, in
\* the order the code makes them
ClothingReads(data) ==
    LET Compared(r, op1) == IF r.exc = "" THEN CompareWithInt(r.v, op1) ELSE r
        Reads(temp, description, wind_speed) ==
            <<temp, description, wind_speed, Compared(temp, S_NotSupported1),
              Compared(wind_speed, S_GtNotSupported1)>>
    IN  Reads(GetKey2(data, K_main, K_temp),
              LowerOf(GetKeyFirstKey(data, K_weather, K_description)),
              GetKey2(data, K_wind, K_speed))

\* a faulty variant of CurrentTemperatureItems: a boundary value belongs to the colder
\* tier
CurrentTemperatureItemsInclusive(temp) ==
    IF temp <= 0 THEN <<I_HeavyWinterCoat, I_HatScarfGloves, I_ThermalLayers, I_InsulatedBoots>>
    ELSE IF temp <= 100 THEN <<I_WinterCoat, I_HatGloves, I_WarmLayers>>
    ELSE IF temp <= 150 THEN <<I_LightJacket, I_LongSleeves>>
    ELSE IF temp <= 200 THEN <<I_LightSweater>>
    ELSE IF temp <= 250 THEN <<I_TShirt, I_LightPants>>
    ELSE <<I_Breathable, I_Shorts, I_SunProtection>>

\* the temperature tier of the "now" list; temp in tenths of a degree
CurrentTemperatureItems(temp) ==
    IF temp < 0 THEN <<I_HeavyWinterCoat, I_HatScarfGloves, I_ThermalLayers, I_InsulatedBoots>>
    ELSE IF temp < 100 THEN <<I_WinterCoat, I_HatGloves, I_WarmLayers>>
    ELSE IF temp < 150 THEN <<I_LightJacket, I_LongSleeves>>
    ELSE IF temp < 200 THEN <<I_LightSweater>>
    ELSE IF temp < 250 THEN <<I_TShirt, I_LightPants>>
    ELSE <<I_Breathable, I_Shorts, I_SunProtection>>

\* the condition rules of the "now" list: an elif chain, the first rule that applies
CurrentConditionItems(description, temp) ==
    IF Contains(description, S_rain) \/ Contains(description, S_drizzle)
       \/ Contains(description, S_shower)
    THEN <<I_Raincoat, I_WaterproofShoes>>
    ELSE IF Contains(description, S_snow) \/ Contains(description, S_sleet)
    THEN <<I_WaterproofBoots, I_WaterproofJacket>>
    ELSE IF Contains(description, S_thunderstorm)
    THEN <<I_StayIndoors, I_RaincoatMustGo>>
    ELSE IF Contains(description, S_clear) /\ temp > 200
    THEN <<I_Sunglasses, I_Sunscreen, I_SunHat>>
    ELSE <<>>

CurrentWindItems(wind_speed) == IF wind_speed > 100 THEN <<I_WindbreakerJacket>> ELSE <<>>

\* current_recommendations, for a snapshot whose reads all succeed
CurrentRecommendations(data) ==
    LET Items(temp, description, wind_speed) ==
            CurrentTemperatureItems(temp) \o CurrentConditionItems(description, temp)
            \o CurrentWindItems(wind_speed)
        Of(r) == Items(Tenths(r[1].v), r[2].v.v, Tenths(r[3].v))
    IN  Of(ClothingReads(data))

\* the reduced rules of a time block
BlockTemperatureItems(temp) ==
    IF temp < 0 THEN <<I_HeavyWinterCoat, I_HatScarfGloves, I_ThermalLayers>>
    ELSE IF temp < 100 THEN <<I_WinterCoat, I_HatGloves>>
    ELSE IF temp < 150 THEN <<I_LightJacket>>
    ELSE IF temp < 200 THEN <<I_LightSweater>>
    ELSE IF temp < 250 THEN <<I_TShirt>>
    ELSE <<I_Breathable, I_SunProtection>>

BlockConditionItems(description, temp) ==
    IF Contains(description, S_rain) \/ Contains(description, S_drizzle)
    THEN <<I_Raincoat>>
    ELSE IF Contains(description, S_snow)
    THEN <<I_WaterproofBoots>>
    ELSE IF Contains(description, S_clear) /\ temp > 200
    THEN <<I_Sunglasses>>
    ELSE <<>>

BlockWindItems(wind_speed) == IF wind_speed > 100 THEN <<I_Windbreaker>> ELSE <<>>

BlockRecommendations(entry) ==
    LET Items(temp, description, wind_speed) ==
            BlockTemperatureItems(temp) \o BlockConditionItems(description, temp)
            \o BlockWindItems(wind_speed)
        Of(r) == Items(Tenths(r[1].v), r[2].v.v, Tenths(r[3].v))
    IN  Of(ClothingReads(entry))

BlockNames == <<S_Morning, S_Afternoon, S_Evening>>

\* the block of an entry whose dt is a timestamp: 1 Morning, 2 Afternoon, 3 Evening
BlockOf(entry) ==
    IF HourOf(entry.v[K_dt].v) < 12 THEN 1
    ELSE IF HourOf(entry.v[K_dt].v) < 18 THEN 2
    ELSE 3

\* the evaluation of  datetime.fromtimestamp(entry["dt"])  in the grouping loop; the
\* elements of a str are one-character strs
EntryTime(entry) ==
    LET Stamp(dt) ==
            IF dt.exc # "" THEN dt
            ELSE IF dt.v.t # "int" THEN Raised("TypeError", <<>>)
            ELSE dt
    IN  IF entry.t = "str" THEN Raised("TypeError", S_StrIndices)
        ELSE Stamp(GetKey(entry, K_dt))

\* the elements the for loop over forecast_data visits: of a list its items, of a str
\* its characters
ForecastItems(forecast_data) ==
    IF forecast_data.t = "list" THEN forecast_data.v
    ELSE IF forecast_data.t = "str"
         THEN [i \in 1..Len(forecast_data.v) |-> PyStr(<<forecast_data.v[i]>>)]
    ELSE <<>>

\* time_blocks[name], for forecast items whose EntryTime all succeed
BlockEntries(items, b) == SelectSeq(items, LAMBDA e : BlockOf(e) = b)

\* a faulty variant of Representative: the first entry of the block
RepresentativeFirst(entries) == entries[1]

\* the representative entry of a non-empty block
Representative(entries) == entries[(Len(entries) \div 2) + 1]

\* the "- Morning: ..." lines of the blocks b..3
RECURSIVE BlockLines(_, _)
BlockLines(items, b) ==
    LET Line(recs) ==
            IF recs # <<>>
            THEN <<"-", " ">> \o BlockNames[b] \o S_ColonSpace \o Join(recs) \o <<".", "\n">>
            ELSE <<>>
        Block(entries) ==
            IF entries # <<>> THEN Line(BlockRecommendations(Representative(entries)))
            ELSE <<>>
    IN  IF b > 3 THEN <<>>
        ELSE Block(BlockEntries(items, b)) \o BlockLines(items, b + 1)

\* the evaluations of the forecast part in the order the code makes them: the grouping
\* loop over all items, then the reads of each non-empty block's representative
ForecastEvaluations(items) ==
    LET Reads(entries) ==
            IF entries = <<>> THEN <<>> ELSE ClothingReads(Representative(entries))
        Grouped(times) ==
            IF \A i \in 1..Len(items) : times[i].exc = ""
            THEN times \o Reads(BlockEntries(items, 1)) \o Reads(BlockEntries(items, 2))
                 \o Reads(BlockEntries(items, 3))
            ELSE times
    IN  Grouped([i \in 1..Len(items) |-> EntryTime(items[i])])

\* an evaluation: the text returned, or the exception that is neither a KeyError nor a
\* TypeError
get_clothing_recommendation(weather_data, forecast_data) ==
    LET RestOfDay(items) ==
            IF Truthy(forecast_data) /\ items # <<>>
            THEN S_RestOfDay \o BlockLines(items, 1)
            ELSE <<>>
        Result(bad) ==
            IF bad.exc \in {"KeyError", "TypeError"}
            THEN Returned(PyStr(S_ErrClothing \o bad.msg))
            ELSE IF bad.exc # "" THEN bad
            ELSE Returned(PyStr(
                    S_ClothingHeader \o S_ForNow \o Join(CurrentRecommendations(weather_data))
                    \o <<".", "\n", "\n">> \o RestOfDay(ForecastItems(forecast_data))))
        Evaluations(items) ==
            ClothingReads(weather_data)
            \o (IF Truthy(forecast_data) THEN ForecastEvaluations(items) ELSE <<>>)
    IN  IF ~Truthy(weather_data) THEN Returned(PyStr(MsgNoWeatherData))
        ELSE Result(FirstRaised(Evaluations(ForecastItems(forecast_data))))

(***************************************************************************)
(* Config (src/config.py)                                                  *)
(***************************************************************************)
\* int(s) for a str of ASCII characters: whitespace around, an optional sign, digits
\* with single underscores between them
IntOfStr(s) ==
    LET Invalid == Raised("ValueError", X_invalid_int \o <<"'">> \o s \o <<"'">>)
        WellFormed(ds) ==
            /\ ds # <<>>
            /\ \A k \in DOMAIN ds : ds[k] \in DigitSet \cup {"_"}
            /\ ds[1] # "_"
            /\ ds[Len(ds)] # "_"
            /\ \A k \in 1..(Len(ds) - 1) : ~(ds[k] = "_" /\ ds[k + 1] = "_")
        Value(sign, ds) ==
            IF WellFormed(ds)
            THEN Returned(PyInt(sign * DigitsVal(SelectSeq(ds, LAMBDA c : c # "_"))))
            ELSE Invalid
        Signed(x) ==
            IF x # <<>> /\ x[1] = "-" THEN Value(-1, Tail(x))
            ELSE IF x # <<>> /\ x[1] = "+" THEN Value(1, Tail(x))
            ELSE Value(1, x)
    IN  Signed(Strip(s))

\* the environment variables Config reads
EnvVars == <<"API_PORT", "OLLAMA_BASE_URL", "OLLAMA_MODEL", "OPENWEATHER_API_KEY">>

\* os.getenv(var): env lists the values of EnvVars, None for a variable that is not set
GetEnv(env, var) == env[CHOOSE k \in DOMAIN EnvVars : EnvVars[k] = var]

\* Config._load_config_file: file[1] is os.path.exists(config_path), file[2] the
\* evaluation of open and json.load; every exception gives {}
Config_load_config_file(file) ==
    IF file[1] /\ file[2].exc = "" THEN file[2].v ELSE PyDict(<<>>)

\* self.config.setdefault(section, {})[key] = val, for the evaluation config of what
\* precedes and the evaluation val of the value
ConfigOverride(config, section, key, val) ==
    LET Put(d) == [k \in DOMAIN d \cup {key} |-> IF k = key THEN val.v ELSE d[k]]
        Assign(c, sub) ==
            IF ~IsDict(sub)
            THEN Raised("TypeError", <<"'">> \o TypeName(sub) \o X_no_item_assignment)
            ELSE Returned(PyDict([k \in DOMAIN c \cup {section} |->
                                    IF k = section THEN PyDict(Put(sub.v)) ELSE c[k]]))
        SetDefault(c) ==
            IF ~IsDict(c)
            THEN Raised("AttributeError", <<"'">> \o TypeName(c) \o X_no_setdefault)
            ELSE Assign(c.v, IF section \in DOMAIN c.v THEN c.v[section] ELSE PyDict(<<>>))
    IN  IF config.exc # "" THEN config
        ELSE IF val.exc # "" THEN val
        ELSE SetDefault(config.v)

\* Config._override_from_env: an evaluation whose value is self.config
Config_override_from_env(config, env) ==
    LET Setting(c, var, section, key) ==
            IF c.exc = "" /\ Truthy(GetEnv(env, var))
            THEN ConfigOverride(c, section, key, Returned(GetEnv(env, var)))
            ELSE c
        Port(c) ==
            IF Truthy(GetEnv(env, "API_PORT"))
            THEN ConfigOverride(c, C_api, C_port, IntOfStr(GetEnv(env, "API_PORT").v))
            ELSE c
        BaseUrl(c) == Setting(c, "OLLAMA_BASE_URL", C_ollama, C_base_url)
        Model(c) == Setting(c, "OLLAMA_MODEL", C_ollama, C_default_model)
        ApiKey(c) == Setting(c, "OPENWEATHER_API_KEY", C_weather, C_api_key)
    IN  ApiKey(Model(BaseUrl(Port(Returned(config)))))

\* Config.__init__: an evaluation whose value is self.config
Config_init(file, env) == Config_override_from_env(Config_load_config_file(file), env)

\* the walk of Config.get along parts[i..]
RECURSIVE ConfigWalk(_, _, _, _)
ConfigWalk(value, parts, i, default) ==
    IF i > Len(parts) THEN value
    ELSE IF IsDict(value) /\ parts[i] \in DOMAIN value.v
         THEN ConfigWalk(value.v[parts[i]], parts, i + 1, default)
         ELSE default

\* Config.get(key, default) on self.config
Config_get(config, key, default) == ConfigWalk(config, SplitOn(key, "."), 1, default)
\* the raw query texts
\* "Tell me a joke"
Q_joke == <<"T", "e", "l", "l", " ", "m", "e", " ", "a", " ", "j", "o", "k", "e">>
\* "  what is \t up "
Q_whatsup == <<" ", " ", "w", "h", "a", "t", " ", "i", "s", " ", "\t", " ", "u", "p", " ">>
\* "What's the WEATHER in Rome"
Q_rome == <<"W", "h", "a", "t", "'", "s", " ", "t", "h", "e", " ", "W", "E", "A", "T", "H",
    "E", "R", " ", "i", "n", " ", "R", "o", "m", "e">>
\* "weather"
Q_bare == <<"w", "e", "a", "t", "h", "e", "r">>
\* "weather for St. Ives, UK"
Q_ives == <<"w", "e", "a", "t", "h", "e", "r", " ", "f", "o", "r", " ", "S", "t", ".", " ",
    "I", "v", "e", "s", ",", " ", "U", "K">>
\* "Weather in unknown."
Q_unknown == <<"W", "e", "a", "t", "h", "e", "r", " ", "i", "n", " ", "u", "n", "k", "n", "o",
    "w", "n", ".">>
\* "Quit"
Q_quit == <<"Q", "u", "i", "t">>

\* the inputs that end the interactive loop
\* "exit"
S_exit == <<"e", "x", "i", "t">>
\* "quit"
S_quit == <<"q", "u", "i", "t">>
\* "q"
S_q == <<"q">>

\* outputs of the general chain
\* "Knock knock."
A_joke == <<"K", "n", "o", "c", "k", " ", "k", "n", "o", "c", "k", ".">>

\* outputs of the location-resolution chain
\* "{\"location\": \"Rome\"}"
E_rome == <<"{", "\"", "l", "o", "c", "a", "t", "i", "o", "n", "\"", ":", " ", "\"", "R", "o",
    "m", "e", "\"", "}">>
\* "{\"location\": \"UNKNOWN\"}"
E_unknown == <<"{", "\"", "l", "o", "c", "a", "t", "i", "o", "n", "\"", ":", " ", "\"", "U",
    "N", "K", "N", "O", "W", "N", "\"", "}">>
\* "{\"location\": \"\"}"
E_empty == <<"{", "\"", "l", "o", "c", "a", "t", "i", "o", "n", "\"", ":", " ", "\"", "\"", "}">>
\* "{\"location\": null}"
E_null == <<"{", "\"", "l", "o", "c", "a", "t", "i", "o", "n", "\"", ":", " ", "n", "u", "l",
    "l", "}">>
\* "{\"location\": 5}"
E_number == <<"{", "\"", "l", "o", "c", "a", "t", "i", "o", "n", "\"", ":", " ", "5", "}">>
\* "{\"city\": \"Rome\"}"
E_nokey == <<"{", "\"", "c", "i", "t", "y", "\"", ":", " ", "\"", "R", "o", "m", "e", "\"", "}">>
\* "Sure! {\"location\": \"St. Ives, UK\"}"
E_ives == <<"S", "u", "r", "e", "!", " ", "{", "\"", "l", "o", "c", "a", "t", "i", "o", "n",
    "\"", ":", " ", "\"", "S", "t", ".", " ", "I", "v", "e", "s", ",", " ", "U", "K", "\"", "}">>
\* "{\"location\": \"42\"}"
E_digits == <<"{", "\"", "l", "o", "c", "a", "t", "i", "o", "n", "\"", ":", " ", "\"", "4",
    "2", "\"", "}">>
\* "\"Rome\""
E_barestring == <<"\"", "R", "o", "m", "e", "\"">>
\* "{\"location\": Rome}"
E_malformed == <<"{", "\"", "l", "o", "c", "a", "t", "i", "o", "n", "\"", ":", " ", "R", "o",
    "m", "e", "}">>
\* "It is sunny"
E_free == <<"I", "t", " ", "i", "s", " ", "s", "u", "n", "n", "y">>

\* outputs of the geocoding prompt
\* "{\"latitude\": 41.9, \"longitude\": 12.5}"
G_coords == <<"{", "\"", "l", "a", "t", "i", "t", "u", "d", "e", "\"", ":", " ", "4", "1", ".",
    "9", ",", " ", "\"", "l", "o", "n", "g", "i", "t", "u", "d", "e", "\"", ":", " ", "1", "2",
    ".", "5", "}">>
\* "I don't know"
G_dontknow == <<"I", " ", "d", "o", "n", "'", "t", " ", "k", "n", "o", "w">>

\* str(e) of the exceptions the collaborators raise
\* "connection refused"
X_refused == <<"c", "o", "n", "n", "e", "c", "t", "i", "o", "n", " ", "r", "e", "f", "u", "s",
    "e", "d">>
\* "404 Client Error"
X_notfound == <<"4", "0", "4", " ", "C", "l", "i", "e", "n", "t", " ", "E", "r", "r", "o", "r">>

\* payload texts
\* "k"
S_apikey == <<"k">>
\* "Rome"
S_Rome == <<"R", "o", "m", "e">>
\* "IT"
S_IT == <<"I", "T">>
\* "light rain"
S_lightrain == <<"l", "i", "g", "h", "t", " ", "r", "a", "i", "n">>
\* "clear sky"
S_clearsky == <<"c", "l", "e", "a", "r", " ", "s", "k", "y">>
\* the texts the properties look for
\* "couldn't find"
S_couldntfind == <<"c", "o", "u", "l", "d", "n", "'", "t", " ", "f", "i", "n", "d">>
\* "St. Ives, UK"
S_StIves == <<"S", "t", ".", " ", "I", "v", "e", "s", ",", " ", "U", "K">>
\* "{\"coordinates\": [41.9, 12.5]}"
G_keyless == <<"{", "\"", "c", "o", "o", "r", "d", "i", "n", "a", "t", "e", "s", "\"", ":",
    " ", "[", "4", "1", ".", "9", ",", " ", "1", "2", ".", "5", "]", "}">>
\* "Rome {\"city\": \"Rome\"} is at 41.9, 12.5"
G_prose == <<"R", "o", "m", "e", " ", "{", "\"", "c", "i", "t", "y", "\"", ":", " ", "\"", "R",
    "o", "m", "e", "\"", "}", " ", "i", "s", " ", "a", "t", " ", "4", "1", ".", "9", ",", " ",
    "1", "2", ".", "5">>
\* further outputs of the geocoding prompt
\* "{\"latitude\": \"41.9\", \"longitude\": \"12.5\"}"
G_strings == <<"{", "\"", "l", "a", "t", "i", "t", "u", "d", "e", "\"", ":", " ", "\"", "4",
    "1", ".", "9", "\"", ",", " ", "\"", "l", "o", "n", "g", "i", "t", "u", "d", "e", "\"",
    ":", " ", "\"", "1", "2", ".", "5", "\"", "}">>
\* "{\"latitude\": \"north\", \"longitude\": \"east\"}"
G_words == <<"{", "\"", "l", "a", "t", "i", "t", "u", "d", "e", "\"", ":", " ", "\"", "n", "o",
    "r", "t", "h", "\"", ",", " ", "\"", "l", "o", "n", "g", "i", "t", "u", "d", "e", "\"",
    ":", " ", "\"", "e", "a", "s", "t", "\"", "}">>
\* "{\"lat\": 41.9}"
G_nokeys == <<"{", "\"", "l", "a", "t", "\"", ":", " ", "4", "1", ".", "9", "}">>
\* "{\"latitude\": null, \"longitude\": 12.5}"
G_null == <<"{", "\"", "l", "a", "t", "i", "t", "u", "d", "e", "\"", ":", " ", "n", "u", "l",
    "l", ",", " ", "\"", "l", "o", "n", "g", "i", "t", "u", "d", "e", "\"", ":", " ", "1", "2",
    ".", "5", "}">>
\* "[41.9, 12.5]"
G_array == <<"[", "4", "1", ".", "9", ",", " ", "1", "2", ".", "5", "]">>
\* "Rome is at 41.9, 12.5"
G_text == <<"R", "o", "m", "e", " ", "i", "s", " ", "a", "t", " ", "4", "1", ".", "9", ",",
    " ", "1", "2", ".", "5">>
\* "{\"latitude\": 41.9, \"longitude\": }"
G_malformed == <<"{", "\"", "l", "a", "t", "i", "t", "u", "d", "e", "\"", ":", " ", "4", "1",
    ".", "9", ",", " ", "\"", "l", "o", "n", "g", "i", "t", "u", "d", "e", "\"", ":", " ", "}">>

\* a location with two variations
\* "New York"
S_NewYork == <<"N", "e", "w", " ", "Y", "o", "r", "k">>
\* descriptions of the weather condition
\* "clear sky"
D_clearsky == <<"c", "l", "e", "a", "r", " ", "s", "k", "y">>
\* "Clear Sky"
D_ClearSky == <<"C", "l", "e", "a", "r", " ", "S", "k", "y">>
\* "few clouds"
D_fewclouds == <<"f", "e", "w", " ", "c", "l", "o", "u", "d", "s">>
\* "thunderstorm"
D_thunderstorm == <<"t", "h", "u", "n", "d", "e", "r", "s", "t", "o", "r", "m">>
\* "thunderstorm with rain"
D_thunderrain == <<"t", "h", "u", "n", "d", "e", "r", "s", "t", "o", "r", "m", " ", "w", "i",
    "t", "h", " ", "r", "a", "i", "n">>
\* "snow"
D_snow == <<"s", "n", "o", "w">>
\* "light shower snow"
D_showersnow == <<"l", "i", "g", "h", "t", " ", "s", "h", "o", "w", "e", "r", " ", "s", "n",
    "o", "w">>
\* "sleet"
D_sleet == <<"s", "l", "e", "e", "t">>
\* a city whose name contains "Error"
\* "Errorville"
S_Errorville == <<"E", "r", "r", "o", "r", "v", "i", "l", "l", "e">>
(***************************************************************************)
(* QueryRouter: the pure steps of the chat handler                         *)
(***************************************************************************)
\* lines 152-175 of the handler: the location parsed from the output of the
\* location-resolution chain.  An evaluation: only json.JSONDecodeError is caught.
ParseLocation(llm_out, query) ==
    LET OrUnknown(loc) == IF Truthy(loc) THEN loc ELSE PyStr(S_Unknown)
        Manual(loc) ==
            IF Truthy(loc) THEN loc ELSE OrUnknown(extract_location_from_text(query))
        Parsed(location_data) ==
            IF ~location_data.ok THEN Returned(Manual(extract_location_from_text(llm_out)))
            ELSE IF ~IsDict(location_data.v) THEN Raised("AttributeError", <<>>)
            ELSE IF S_location \in DOMAIN location_data.v.v
                 THEN Returned(location_data.v.v[S_location])
                 ELSE Returned(PyStr(S_Unknown))
        Json(json_match) ==
            Parsed(json_loads(IF json_match.found THEN json_match.g ELSE llm_out))
    IN  Json(BraceSearch(llm_out))

\* a faulty variant of LocationUsable: the comparison without lower()
LocationUsableExactCase(loc) ==
    IF ~Truthy(loc) THEN Returned(PyBool(FALSE))
    ELSE IF ~IsStr(loc) THEN Raised("AttributeError", <<>>)
    ELSE Returned(PyBool(loc.v # S_Unknown))

\* the test  location and location.lower() != "unknown": an evaluation whose value
\* is a bool; a true value that is not a str has no lower()
LocationUsable(loc) ==
    IF ~Truthy(loc) THEN Returned(PyBool(FALSE))
    ELSE IF ~IsStr(loc) THEN Raised("AttributeError", <<>>)
    ELSE Returned(PyBool(LowerStr(loc.v) # S_unknown))

\* lines 391-404 of api_geocode_location, the body of the try block for one variation:
\* an evaluation whose value is the (lat, lon) of the first result, or None when there
\* is no result or it lacks lat or lon; http is the evaluation of the request and of
\* response.json()
GeocodeAttempt(http) ==
    LET Entry(e) ==
            IF ~IsDict(e) THEN Raised("AttributeError", <<>>)
            ELSE IF DictGet(e, K_lat) = PyNone \/ DictGet(e, K_lon) = PyNone
                 THEN Returned(PyNone)
            ELSE Returned(PyTuple(<<DictGet(e, K_lat), DictGet(e, K_lon)>>))
        First(r) == IF r.exc # "" THEN r ELSE Entry(r.v)
    IN  IF http.exc # "" THEN http
        ELSE IF ~Truthy(http.v) THEN Returned(PyNone)
        ELSE IF http.v.t = "dict" THEN Raised("KeyError", <<"0">>)
        ELSE IF http.v.t \in {"int", "float", "bool"} THEN Raised("TypeError", <<>>)
        ELSE IF http.v.t = "str" THEN Raised("AttributeError", <<>>)
        ELSE First(GetFirst(http.v))

\* one turn of the loop: the except clause goes on to the next variation
GeocodeResult(http) ==
    LET Except(r) ==
            IF r.exc = "" THEN r
            ELSE IF TierCaught(r.exc) THEN Returned(PyNone)
            ELSE r
    IN  Except(GeocodeAttempt(http))

\* a faulty variant of NotFoundSuggestion: the message names the token, not the location
NotFoundNamingCity(loc) ==
    LET Message(city_match) ==
            IF city_match.found THEN S_NotFound1 \o city_match.g \o S_NotFound2
            ELSE S_NotFound1 \o loc \o S_NotFound2
    IN  Message(CitySearch(loc))

\* the message of the server handler and of the main path of the interactive loop
\* when no tier finds the location
NotFoundSuggestion(loc) ==
    LET Message(city_match) ==
            IF city_match.found
            THEN S_NotFoundSpecific1 \o loc \o S_NotFoundSpecific2 \o city_match.g
                 \o S_NotFoundSpecific3
            ELSE S_NotFound1 \o loc \o S_NotFound2
    IN  Message(CitySearch(loc))

\* the message of the direct-extraction fallback of the interactive loop
NotFoundPlain(loc) == S_NotFound1 \o loc \o S_NotFound2

\* a faulty variant of IsErrorText: weather_text == "Error"
IsErrorTextExact(wt) == IsStr(wt) /\ wt.v = S_Error

\* "Error" in weather_text
IsErrorText(wt) == IsStr(wt) /\ Contains(wt.v, S_Error)

CouldntGet(loc, wt) == S_CouldntGet1 \o loc \o <<".", " ">> \o wt

BasedOn(loc, wt) == S_Based1 \o loc \o S_Based2 \o wt

BasedOnWithClothing(loc, wt, clothing) == BasedOn(loc, wt) \o <<"\n", "\n">> \o clothing

\* what the except clause of the weather branch of the server handler answers
WeatherExceptResponse == PyStr(MsgTrouble)

\* whether the except clause of the weather branch retries with the direct extraction:
\* the interactive loop does, once; the server handler does not
DirectFallback(e, fb) == e = "direct" /\ ~fb

\* a faulty variant of IsWeatherQuery: the test negated
IsNotWeatherQuery(q) == ~Contains(LowerStr(q), S_weather)

\* "weather" in user_query.lower()
IsWeatherQuery(q) == Contains(LowerStr(q), S_weather)

\* a faulty variant of NeedsWebTier: the web tier is asked whatever the model tier gave
AlwaysWebTier(coords) == TRUE

\* if not coordinates: the web tier is the fallback of the model tier
NeedsWebTier(coords) == ~Truthy(coords)

\* a faulty variant of Caught: except json.JSONDecodeError
CaughtDecodeErrorOnly(cls) == cls = "JSONDecodeError"

\* except Exception: the clause of the weather branch catches every exception class
Caught(cls) == TRUE

\* the variations whose request has a result, given the evaluation https[i] of the
\* request for the i-th variation
GeocodeHits(location, https) ==
    {i \in DOMAIN normalize_location(location.v) :
        GeocodeResult(https[i]) # Returned(PyNone)}

\* the loop stops at the first variation with a result (or with an exception that
\* leaves it): an evaluation whose value is the tuple (lat, lon) or None
api_geocode_location(location, key, https) ==
    LET First(hits) ==
            IF hits = {} THEN Returned(PyNone) ELSE GeocodeResult(https[Min(hits)])
    IN  IF ~Truthy(location) \/ ~Truthy(key) THEN Returned(PyNone)
        ELSE First(GeocodeHits(location, https))

\* a faulty variant of GeocodeRequests: the loop goes on after a result
GeocodeRequestsAll(location, key, https) ==
    IF ~Truthy(location) \/ ~Truthy(key) THEN <<>>
    ELSE [i \in 1..Len(normalize_location(location.v)) |-> "geo"]

\* the requests api_geocode_location issues: one for each variation up to the first hit
GeocodeRequests(location, key, https) ==
    LET Upto(hits, n) == [i \in 1..(IF hits = {} THEN n ELSE Min(hits)) |-> "geo"]
    IN  IF ~Truthy(location) \/ ~Truthy(key) THEN <<>>
        ELSE Upto(GeocodeHits(location, https), Len(normalize_location(location.v)))

\* the variations api_geocode_location may request for a location
Variations(location) == IF IsStr(location) THEN normalize_location(location.v) ELSE <<>>

\* user_query.lower() in ["exit", "quit", "q"]
ExitCommands == {S_exit, S_quit, S_q}

(***************************************************************************)
(* The collaborators' answers                                              *)
(***************************************************************************)
MaxQueries == 2

Entries == {"app", "direct"}

Queries == {Q_joke, Q_whatsup, Q_rome, Q_bare, Q_ives, Q_unknown, Q_quit}

\* the process-wide OpenWeather key: configured or not
ApiKeys == {PyStr(S_apikey), PyNone}

units == S_metric

LlmError == Raised("Exception", X_refused)

HttpError == Raised("HTTPError", X_notfound)

GeneralAnswers == {Returned(PyStr(A_joke)), LlmError}

ExtractionAnswers ==
    {Returned(PyStr(s)) : s \in {E_rome, E_unknown, E_empty, E_null, E_number, E_nokey,
                                 E_ives, E_digits, E_barestring, E_malformed, E_free}}
    \cup {LlmError}

GeocodingAnswers == {Returned(PyStr(G_coords)), Returned(PyStr(G_dontknow)), LlmError}

GeoHit == PyList(<<PyDict(K_lat :> PyFloat(502) @@ K_lon :> PyFloat(-55))>>)

GeoNoLon == PyList(<<PyDict(K_lat :> PyFloat(502))>>)

GeocodeResponses == {Returned(GeoHit), Returned(GeoNoLon), Returned(PyList(<<>>)), HttpError}

WeatherPayload(temp, description) ==
    PyDict(K_name :> PyStr(S_Rome) @@ K_sys :> PyDict(K_country :> PyStr(S_IT))
           @@ K_main :> PyDict(K_temp :> temp @@ K_feels_like :> PyFloat(148)
                               @@ K_humidity :> PyInt(76))
           @@ K_weather :> PyList(<<PyDict(K_description :> PyStr(description))>>)
           @@ K_wind :> PyDict(K_speed :> PyFloat(41)))

\* a payload without "name"
WeatherNoName == PyDict(K_sys :> PyDict(K_country :> PyStr(S_IT)))

\* a complete payload for a city whose name contains "Error"
WeatherErrorville ==
    PyDict([WeatherPayload(PyFloat(155), S_lightrain).v EXCEPT ![K_name] = PyStr(S_Errorville)])

WeatherResponses ==
    {Returned(WeatherPayload(PyFloat(155), S_lightrain)), Returned(WeatherErrorville),
     Returned(WeatherNoName), HttpError}

ForecastEntry(ts, temp, weather) ==
    PyDict(K_dt :> PyInt(ts) @@ K_main :> PyDict(K_temp :> temp) @@ K_weather :> weather
           @@ K_wind :> PyDict(K_speed :> PyInt(12)))

Rainy == PyList(<<PyDict(K_description :> PyStr(S_lightrain))>>)

Forecast(entries) == PyDict(K_list :> PyList(entries))

\* entries at 09:00, 15:00 and 21:00 of day 0 and 00:00 of day 1
ForecastDay ==
    Forecast(<<ForecastEntry(9, PyInt(8), Rainy), ForecastEntry(15, PyInt(22), Rainy),
               ForecastEntry(21, PyInt(12), Rainy), ForecastEntry(24, PyInt(5), Rainy)>>)

\* an entry whose "weather" list is empty
ForecastNoWeather == Forecast(<<ForecastEntry(15, PyInt(22), PyList(<<>>))>>)

ForecastResponses == {Returned(ForecastDay), Returned(ForecastNoWeather), HttpError}

\* the wall-clock hours a forecast is fetched at
Nows == {9, 21}

(***************************************************************************)
(* The state: one process, the server (entry "app") or the interactive     *)
(* loop (entry "direct").  The variables from served to requests are the   *)
(* frame of the handler that runs; others holds the frame of a second      *)
(* handler of the server while it does not run.                            *)
(***************************************************************************)
VARIABLES
    api_key,            \* the OpenWeather key read at start-up
    entry,              \* which program runs
    served,             \* the number of queries this handler has received so far
    pc,                 \* the position in the handler
    text,               \* the query as received
    user_query,         \* the normalized query
    llm_response,       \* the output of the location-resolution chain
    location,
    coordinates,
    weather_text,
    raw_weather_data,
    forecast_data,
    response,
    outcome,            \* "" while handling; "response": the response is returned
                        \* (HTTP 200) or printed; "error": HTTP 500, or only the error
                        \* is printed
    detail,             \* str(e) of the exception that ended the query in "error"
    fallback,           \* the interactive loop is in its direct-extraction fallback
    raised,             \* the exception classes raised in the weather branch of this query
    calls,              \* the calls of this query to the chains, the geocoders, the
                        \* weather client and the clothing advisor, in order
    requests,           \* the endpoints of the HTTP requests issued for this query
    others              \* the frame of the handler that does not run

vars ==
    <<api_key, entry, served, pc, text, user_query, llm_response, location, coordinates,
      weather_text, raw_weather_data, forecast_data, response, outcome, detail, fallback,
      raised, calls, requests, others>>

\* the frame of the handler that runs: its locals
Frame ==
    <<served, pc, text, user_query, llm_response, location, coordinates, weather_text,
      raw_weather_data, forecast_data, response, outcome, detail, fallback, raised, calls,
      requests>>

\* a call: the function, its argument, and the evaluation of the call
Call(fn, arg, out) == [fn |-> fn, arg |-> arg, out |-> out]

Init ==
    /\ api_key \in ApiKeys
    /\ entry \in Entries
    /\ served = 0
    /\ pc = "idle"
    /\ text = <<>>
    /\ user_query = <<>>
    /\ llm_response = PyNone
    /\ location = PyNone
    /\ coordinates = PyNone
    /\ weather_text = PyNone
    /\ raw_weather_data = PyNone
    /\ forecast_data = PyNone
    /\ response = PyNone
    /\ outcome = ""
    /\ detail = <<>>
    /\ fallback = FALSE
    /\ raised = <<>>
    /\ calls = <<>>
    /\ requests = <<>>
    /\ others = Frame

\* return {"response": response} / print("\nResponse:", response)
Respond(r) ==
    /\ response' = r
    /\ outcome' = "response"
    /\ detail' = <<>>
    /\ pc' = "done"

\* a faulty variant of Escalate: the exception is swallowed and nothing is answered
SwallowEscalation(e) ==
    /\ outcome' = ""
    /\ detail' = <<>>
    /\ pc' = "done"
    /\ UNCHANGED response

\* the outer except clause: HTTPException(status_code=500, detail=str(e)) / the error
\* is printed and the loop goes on
Escalate(e) ==
    /\ outcome' = "error"
    /\ detail' = e.msg
    /\ pc' = "done"
    /\ UNCHANGED response

\* the except clause of the weather branch, for the exception e
WeatherExcept(e) ==
    /\ raised' = Append(raised, e.exc)
    /\ IF ~Caught(e.exc) THEN Escalate(e) /\ UNCHANGED fallback
       ELSE IF DirectFallback(entry, fallback)
            THEN /\ fallback' = TRUE
                 /\ pc' = "fb_extract"
                 /\ UNCHANGED <<response, outcome, detail>>
            ELSE Respond(WeatherExceptResponse) /\ UNCHANGED fallback

\* A query arrives.  The server handler runs in a fresh frame; location and coordinates
\* of the interactive loop are locals of main and keep the values of the last query.
Receive(t) ==
    /\ pc \in {"idle", "done"}
    /\ served < MaxQueries
    /\ entry = "direct" => LowerStr(t) \notin ExitCommands
    /\ served' = served + 1
    /\ text' = t
    /\ pc' = "route"
    /\ user_query' = <<>>
    /\ llm_response' = PyNone
    /\ location' = IF entry = "direct" THEN location ELSE PyNone
    /\ coordinates' = IF entry = "direct" THEN coordinates ELSE PyNone
    /\ weather_text' = PyNone
    /\ raw_weather_data' = PyNone
    /\ forecast_data' = PyNone
    /\ response' = PyNone
    /\ outcome' = ""
    /\ detail' = <<>>
    /\ fallback' = FALSE
    /\ raised' = <<>>
    /\ calls' = <<>>
    /\ requests' = <<>>
    /\ UNCHANGED <<others, api_key, entry>>

\* the interactive loop ends at "exit", "quit" or "q"
Quit(t) ==
    /\ entry = "direct"
    /\ pc \in {"idle", "done"}
    /\ LowerStr(t) \in ExitCommands
    /\ pc' = "exited"
    /\ text' = t
    /\ UNCHANGED <<others, api_key, entry, served, requests, user_query, llm_response, location,
                   coordinates, weather_text, raw_weather_data, forecast_data, response,
                   outcome, detail, fallback, raised, calls>>

\* user_query = preprocess_query(query.text) and the test of the intent
Routed(q) ==
    /\ user_query' = q
    /\ pc' = IF IsWeatherQuery(q) THEN "extract" ELSE "general"

Route ==
    /\ pc = "route"
    /\ Routed(preprocess_query(text))
    /\ response' = IF entry = "direct" THEN PyStr(MsgDontUnderstand) ELSE response
    /\ UNCHANGED <<others, api_key, entry, served, requests, text, llm_response, location, coordinates,
                   weather_text, raw_weather_data, forecast_data, outcome, detail, fallback,
                   raised, calls>>

\* the general branch; llm is the evaluation of chain.run(query=user_query)
GeneralQuery(llm) ==
    /\ pc = "general"
    /\ calls' = Append(calls, Call("general_chain", PyStr(user_query), llm))
    /\ IF llm.exc = "" THEN Respond(llm.v) ELSE Escalate(llm)
    /\ UNCHANGED <<others, api_key, entry, served, requests, text, user_query, llm_response, location,
                   coordinates, weather_text, raw_weather_data, forecast_data, fallback,
                   raised>>

\* llm is the evaluation of location_resolution_chain.run(query=user_query)
ExtractLocation(llm) ==
    /\ pc = "extract"
    /\ calls' = Append(calls, Call("location_chain", PyStr(user_query), llm))
    /\ IF llm.exc = ""
       THEN /\ llm_response' = llm.v
            /\ pc' = "parse"
            /\ UNCHANGED <<response, outcome, detail, fallback, raised>>
       ELSE /\ WeatherExcept(llm)
            /\ UNCHANGED llm_response
    /\ UNCHANGED <<others, api_key, entry, served, requests, text, user_query, location, coordinates,
                   weather_text, raw_weather_data, forecast_data>>

\* the end of the try block that parses llm_response, for the evaluation r of the block
Parsed(r) ==
    IF r.exc = ""
    THEN /\ location' = r.v
         /\ pc' = "check"
         /\ UNCHANGED <<response, outcome, detail, fallback, raised>>
    ELSE /\ location' = PyNone
         /\ WeatherExcept(r)

\* location = None, then the try block that parses llm_response
Parse ==
    /\ pc = "parse"
    /\ Parsed(ParseLocation(llm_response.v, user_query))
    /\ UNCHANGED <<others, api_key, entry, served, requests, text, user_query, llm_response,
                   coordinates, weather_text, raw_weather_data, forecast_data, calls>>

\* the direct extraction of the interactive loop's except clause
FallbackExtract ==
    /\ pc = "fb_extract"
    /\ location' = extract_location_from_text(user_query)
    /\ pc' = "check"
    /\ UNCHANGED <<others, api_key, entry, served, requests, text, user_query, llm_response,
                   coordinates, weather_text, raw_weather_data, forecast_data, response,
                   outcome, detail, fallback, raised, calls>>

\* the branch taken on the evaluation u of the test of the location
Checked(u) ==
    IF u.exc # "" THEN WeatherExcept(u)
    ELSE IF u.v.v
         THEN /\ pc' = "llm_geocode"
              /\ UNCHANGED <<response, outcome, detail, fallback, raised>>
         ELSE /\ Respond(IF fallback THEN response ELSE PyStr(MsgNeedLocation))
              /\ UNCHANGED <<fallback, raised>>

\* if location and location.lower() != "unknown": ... else: the prompt for a location;
\* the fallback has no else branch and leaves response as it is
Check ==
    /\ pc = "check"
    /\ Checked(LocationUsable(location))
    /\ UNCHANGED <<others, api_key, entry, served, requests, text, user_query, llm_response, location,
                   coordinates, weather_text, raw_weather_data, forecast_data, calls>>
\* the end of a geocoding tier, for its evaluation r: the coordinates are assigned, or
\* the exception reaches the except clause of the weather branch
Geocoded(r, next) ==
    IF r.exc # "" THEN WeatherExcept(r) /\ UNCHANGED coordinates
    ELSE /\ coordinates' = r.v
         /\ pc' = next
         /\ UNCHANGED <<response, outcome, detail, fallback, raised>>

\* the model tier, for its evaluation r
ModelTier(r) ==
    /\ calls' = Append(calls, Call("llm_geocode_location", location, r))
    /\ Geocoded(r, IF NeedsWebTier(r.v) THEN "api_geocode" ELSE "fetch_weather")

\* coordinates = llm_geocode_location(location); llm is the evaluation of llm.invoke
LlmGeocode(llm) ==
    /\ pc = "llm_geocode"
    /\ ModelTier(llm_geocode_location(location, llm))
    /\ UNCHANGED <<others, api_key, entry, served, requests, text, user_query, llm_response,
                   location, weather_text, raw_weather_data, forecast_data>>

\* the web tier, for its evaluation r
WebTier(r) ==
    /\ calls' = Append(calls, Call("api_geocode_location", location, r))
    /\ Geocoded(r, IF Truthy(r.v) THEN "fetch_weather" ELSE "not_found")

\* coordinates = api_geocode_location(location, api_key); https[i] is the evaluation of
\* the request for the i-th variation of the location
ApiGeocode(https) ==
    /\ pc = "api_geocode"
    /\ WebTier(api_geocode_location(location, api_key, https))
    /\ requests' = requests \o GeocodeRequests(location, api_key, https)
    /\ UNCHANGED <<others, api_key, entry, served, text, user_query, llm_response, location,
                   weather_text, raw_weather_data, forecast_data>>

NotFound ==
    /\ pc = "not_found"
    /\ Respond(PyStr(IF fallback THEN NotFoundPlain(location.v)
                     ELSE NotFoundSuggestion(location.v)))
    /\ UNCHANGED <<others, api_key, entry, served, requests, text, user_query, llm_response,
                   location, coordinates, weather_text, raw_weather_data, forecast_data,
                   fallback, raised, calls>>

\* lat, lon = coordinates
LatLon(coords) == PyTuple(<<coords.v[1], coords.v[2]>>)

\* weather_text, raw_weather_data = the pair fetched, for the evaluation r of the fetch;
\* the fallback of the interactive loop composes its response right after it
Fetched(r) ==
    /\ calls' = Append(calls, Call("get_weather_by_coordinates", LatLon(coordinates), r))
    /\ IF r.exc # "" THEN WeatherExcept(r) /\ UNCHANGED <<weather_text, raw_weather_data>>
       ELSE /\ weather_text' = r.v.v[1]
            /\ raw_weather_data' = r.v.v[2]
            /\ pc' = IF fallback THEN "compose" ELSE "fetch_forecast"
            /\ UNCHANGED <<response, outcome, detail, fallback, raised>>

\* weather_text, raw_weather_data = get_weather_by_coordinates(lat, lon, api_key, units)
FetchWeather(http) ==
    /\ pc = "fetch_weather"
    /\ Fetched(get_weather_by_coordinates(api_key, units, http))
    /\ requests' = requests \o FetchRequests(api_key, "weather")
    /\ UNCHANGED <<others, api_key, entry, served, text, user_query, llm_response, location,
                   coordinates, forecast_data>>

\* forecast_data, raw_forecast_data = the pair fetched, for the evaluation r of the fetch
Forecasted(r) ==
    /\ calls' = Append(calls, Call("get_forecast_by_coordinates", LatLon(coordinates), r))
    /\ IF r.exc # "" THEN WeatherExcept(r) /\ UNCHANGED forecast_data
       ELSE /\ forecast_data' = r.v.v[1]
            /\ pc' = "compose"
            /\ UNCHANGED <<response, outcome, detail, fallback, raised>>

\* forecast_data, raw_forecast_data = get_forecast_by_coordinates(lat, lon, api_key, units);
\* now is the hour the function reads from the clock
FetchForecast(http, now) ==
    /\ pc = "fetch_forecast"
    /\ Forecasted(get_forecast_by_coordinates(api_key, units, http, now))
    /\ requests' = requests \o FetchRequests(api_key, "forecast")
    /\ UNCHANGED <<others, api_key, entry, served, text, user_query, llm_response, location,
                   coordinates, weather_text, raw_weather_data>>

\* the response with the clothing advice, for the evaluation c of
\* get_clothing_recommendation
Advised(c) ==
    /\ calls' = Append(calls, Call("get_clothing_recommendation",
                                   PyTuple(<<raw_weather_data, forecast_data>>), c))
    /\ IF c.exc # "" THEN WeatherExcept(c)
       ELSE /\ Respond(PyStr(BasedOnWithClothing(location.v, PyFormat(weather_text),
                                                 PyFormat(c.v))))
            /\ UNCHANGED <<fallback, raised>>

\* the response of a query whose coordinates were found
Compose ==
    /\ pc = "compose"
    /\ IF IsErrorText(weather_text)
       THEN /\ Respond(PyStr(CouldntGet(location.v, weather_text.v)))
            /\ UNCHANGED <<fallback, raised, calls>>
       ELSE IF fallback
            THEN /\ Respond(PyStr(BasedOn(location.v, PyFormat(weather_text))))
                 /\ UNCHANGED <<fallback, raised, calls>>
            ELSE Advised(get_clothing_recommendation(raw_weather_data, forecast_data))
    /\ UNCHANGED <<others, api_key, entry, served, requests, text, user_query, llm_response,
                   location, coordinates, weather_text, raw_weather_data, forecast_data>>

\* the steps of the handler between the arrival of a query and its end
Handle ==
    \/ Route
    \/ \E llm \in GeneralAnswers : GeneralQuery(llm)
    \/ \E llm \in ExtractionAnswers : ExtractLocation(llm)
    \/ Parse
    \/ FallbackExtract
    \/ Check
    \/ \E llm \in GeocodingAnswers : LlmGeocode(llm)
    \/ \E https \in [DOMAIN Variations(location) -> GeocodeResponses] : ApiGeocode(https)
    \/ NotFound
    \/ \E http \in WeatherResponses : FetchWeather(http)
    \/ \E http \in ForecastResponses, now \in Nows : FetchForecast(http, now)
    \/ Compose

Next ==
    \/ \E t \in Queries : Receive(t)
    \/ \E t \in Queries : Quit(t)
    \/ Handle

Spec == Init /\ [][Next]_vars

\* the positions of a handler between the arrival of a query and its end
Positions ==
    {"route", "general", "extract", "parse", "fb_extract", "check", "llm_geocode",
     "api_geocode", "not_found", "fetch_weather", "fetch_forecast", "compose"}

\* a step of a handler: it leaves the position it is at
Advance == pc \in Positions /\ pc' \in Positions \cup {"done"} /\ pc' # pc

\* a handler is sequential code: once started it goes on to its next step
FairSpec == Spec /\ WF_pc(Advance)

(***************************************************************************)
(* WeatherTool (src/tools/weather_tool.py)                                 *)
(***************************************************************************)
\* the classes of requests.exceptions.RequestException
RequestExceptions == {"RequestException", "HTTPError", "ConnectionError", "Timeout"}

\* except requests.exceptions.RequestException as e
ToolCaught(cls) == cls \in RequestExceptions

\* WeatherTool._format_weather_data: the body of format_weather_data, with self.units
WeatherTool_format_weather_data(data, tool_units) == format_weather_data(data, tool_units)

\* WeatherTool.get_weather: an evaluation whose value is the text; http is the
\* evaluation of requests.get, raise_for_status() and response.json()
WeatherTool_get_weather(key, tool_units, http) ==
    LET Except(e) ==
            IF e.exc = "" THEN e
            ELSE IF ToolCaught(e.exc) THEN Returned(PyStr(S_ErrFetchWeather \o e.msg))
            ELSE e
    IN  IF ~Truthy(key) THEN Returned(PyStr(MsgNoApiKey))
        ELSE IF http.exc # "" THEN Except(http)
        ELSE Except(WeatherTool_format_weather_data(http.v, tool_units))

(***************************************************************************)
(* The functions on their own: one application of one function to one      *)
(* input, logged as a call with its evaluation.                            *)
(***************************************************************************)
TransportError == Raised("ConnectionError", X_refused)

CompletePayload == WeatherPayload(PyFloat(155), S_lightrain)

\* the complete payload with the value of one top-level key replaced
PayloadWith(key, val) == PyDict([CompletePayload.v EXCEPT ![key] = val])

\* the complete payload without one top-level key
PayloadWithout(key) ==
    PyDict([k \in DOMAIN CompletePayload.v \ {key} |-> CompletePayload.v[k]])

\* payloads with a field missing: a top-level key, a nested key, an empty "weather"
\* list, a null sub-object
BrokenPayloads ==
    {PayloadWithout(k) : k \in {K_name, K_sys, K_main, K_weather, K_wind}}
    \cup {PayloadWith(K_sys, PyDict(<<>>)),
          PayloadWith(K_main, PyDict(K_temp :> PyFloat(155))),
          PayloadWith(K_weather, PyList(<<PyDict(<<>>)>>)),
          PayloadWith(K_wind, PyDict(<<>>)),
          PayloadWith(K_weather, PyList(<<>>)),
          PayloadWith(K_main, PyNone),
          PayloadWith(K_sys, PyNone),
          PayloadWith(K_wind, PyNone)}

\* what the current-weather endpoint may answer
UnitWeatherResponses ==
    {Returned(p) : p \in {CompletePayload} \cup BrokenPayloads}
    \cup {HttpError, TransportError}

\* what the forecast endpoint may answer
UnitForecastResponses ==
    ForecastResponses \cup {Returned(Forecast(<<>>)), Returned(PyDict(K_list :> PyNone)),
                            Returned(PyNone), TransportError}

\* the function fn is applied to arg: out is its evaluation, reqs the requests it issued
Applied(fn, arg, out, reqs) ==
    /\ pc = "idle"
    /\ pc' = "applied"
    /\ calls' = <<Call(fn, arg, out)>>
    /\ requests' = reqs
    /\ UNCHANGED <<others, api_key, entry, served, text, user_query, llm_response, location,
                   coordinates, weather_text, raw_weather_data, forecast_data, response,
                   outcome, detail, fallback, raised>>

ApplyWeather(http) ==
    Applied("get_weather_by_coordinates", http,
            get_weather_by_coordinates(api_key, units, http), FetchRequests(api_key, "weather"))

ApplyForecast(http, now) ==
    Applied("get_forecast_by_coordinates", http,
            get_forecast_by_coordinates(api_key, units, http, now),
            FetchRequests(api_key, "forecast"))

ApplyToolWeather(http) ==
    Applied("WeatherTool.get_weather", http,
            WeatherTool_get_weather(api_key, units, http), FetchRequests(api_key, "weather"))

\* what the model may answer to the geocoding prompt
UnitGeocodingAnswers ==
    {Returned(PyStr(s)) : s \in {G_coords, G_dontknow, G_strings, G_words, G_nokeys, G_null,
                                 G_array, G_text, G_malformed, G_keyless, G_prose}}
    \cup {LlmError}

\* a result for another place
GeoHitElsewhere == PyList(<<PyDict(K_lat :> PyFloat(407) @@ K_lon :> PyInt(-74))>>)

\* what the geocoding endpoint may answer for one variation
UnitGeocodeResponses ==
    GeocodeResponses
    \cup {Returned(GeoHitElsewhere), Returned(PyNone), Returned(PyDict(K_lat :> PyFloat(502) @@ K_lon :> PyFloat(-55))),
          Returned(PyList(<<PyStr(S_Rome)>>)), Returned(PyInt(5)), TransportError}

\* the locations the tiers are applied to
UnitLocations == {PyStr(S_Rome), PyStr(S_NewYork), PyStr(<<>>), PyNone}

ApplyLlmGeocode(loc, llm) ==
    Applied("llm_geocode_location", <<loc, llm>>, llm_geocode_location(loc, llm), <<>>)

ApplyApiGeocode(loc, https) ==
    Applied("api_geocode_location", <<loc, https>>,
            api_geocode_location(loc, api_key, https), GeocodeRequests(loc, api_key, https))

\* the location strings given to normalize_location: every string of these characters
\* up to the length MaxLocationLen
LocationChars == {"a", "b", " ", ",", "."}

MaxLocationLen == 4

UnitLocationStrings == UNION {[1..n -> LocationChars] : n \in 0..MaxLocationLen}

\* the list of str returned by normalize_location
StrList(vs) == PyList([i \in DOMAIN vs |-> PyStr(vs[i])])

ApplyNormalize(loc) ==
    Applied("normalize_location", PyStr(loc), Returned(StrList(normalize_location(loc))), <<>>)

\* a snapshot with the three fields get_clothing_recommendation reads
ClothingSnapshot(temp, description, wind_speed) ==
    PyDict(K_main :> PyDict(K_temp :> temp)
           @@ K_weather :> PyList(<<PyDict(K_description :> PyStr(description))>>)
           @@ K_wind :> PyDict(K_speed :> wind_speed))

\* temperatures below, on and above each boundary of the tiers, as int and as float
UnitTemperatures ==
    {PyInt(t) : t \in {-3, 0, 5, 10, 15, 20, 22, 25, 30}}
    \cup {PyFloat(t) : t \in {-1, 99, 149, 199, 201, 249}}

UnitDescriptions ==
    {S_lightrain, D_clearsky, D_ClearSky, D_fewclouds, D_thunderstorm, D_thunderrain,
     D_snow, D_showersnow, D_sleet}

UnitWindSpeeds == {PyFloat(41), PyInt(10), PyInt(12)}

\* what extract_today_forecast hands over: no entry, entries, an entry whose "weather"
\* list is empty, the error text of a failed fetch
UnitForecasts ==
    {PyNone, ForecastDay.v[K_list], ForecastNoWeather.v[K_list], PyStr(S_ErrFetchForecast)}

ApplyClothing(weather_data, forecast) ==
    Applied("get_clothing_recommendation", PyTuple(<<weather_data, forecast>>),
            get_clothing_recommendation(weather_data, forecast), <<>>)

ApplyFormat(data) ==
    Applied("format_weather_data", data, format_weather_data(data, units), <<>>)

ApplyToolFormat(data) ==
    Applied("WeatherTool._format_weather_data", data,
            WeatherTool_format_weather_data(data, units), <<>>)

\* the payloads given to extract_today_forecast: every list of up to MaxEntries entries
\* with these timestamps, in any order, and payloads without a "list"
UnitTimestamps == {8, 9, 10, 22, 24, 34}

MaxEntries == 3

UnitNows == {9, 33}

UnitPayloads ==
    {Forecast([k \in DOMAIN tss |-> ForecastEntry(tss[k], PyInt(8), Rainy)]) :
        tss \in UNION {[1..m -> UnitTimestamps] : m \in 0..MaxEntries}}
    \cup {PyNone, PyDict(<<>>), PyDict(K_main :> PyDict(K_temp :> PyInt(8))),
          Forecast(<<PyDict(K_main :> PyDict(K_temp :> PyInt(8)))>>)}

\* the forecasts whose blocks are examined: every list of up to MaxEntries of these
\* entries, at 05:00, 11:00, 12:00, 17:00 and 18:00, each with a temperature of its own
UnitBlockEntries ==
    {ForecastEntry(5, PyInt(30), Rainy), ForecastEntry(11, PyInt(-5), Rainy),
     ForecastEntry(12, PyInt(8), Rainy), ForecastEntry(17, PyInt(12), Rainy),
     ForecastEntry(18, PyInt(22), Rainy)}

UnitBlockForecasts ==
    {PyList(entries) : entries \in UNION {[1..m -> UnitBlockEntries] : m \in 0..MaxEntries}}

ApplyExtract(payload, now) ==
    Applied("extract_today_forecast", <<payload, now>>,
            extract_today_forecast(payload, now), <<>>)

\* the texts given to preprocess_query: every string of these characters up to the
\* length MaxQueryLen
QueryChars == {"i", "I", "s", " ", "\t", "?"}

MaxQueryLen == 4

UnitQueryStrings == UNION {[1..n -> QueryChars] : n \in 0..MaxQueryLen}

ApplyPreprocess(query) ==
    Applied("preprocess_query", PyStr(query), Returned(PyStr(preprocess_query(query))), <<>>)

\* the configuration file: not there, not JSON, the sample configuration, a section
\* that is a number, a null key, a JSON array
SampleConfig ==
    PyDict(C_api :> PyDict(C_port :> PyInt(8000))
           @@ C_ollama :> PyDict(C_base_url :> PyStr(V_localhost)
                                 @@ C_default_model :> PyStr(V_llama3))
           @@ C_weather :> PyDict(C_units :> PyStr(S_metric)))

ConfigFiles ==
    {<<FALSE, Returned(PyNone)>>, <<TRUE, Raised("JSONDecodeError", <<>>)>>,
     <<TRUE, Returned(SampleConfig)>>, <<TRUE, Returned(PyDict(C_api :> PyInt(8000)))>>,
     <<TRUE, Returned(PyDict(C_weather :> PyDict(C_api_key :> PyNone)))>>,
     <<TRUE, Returned(PyList(<<>>))>>}

\* the values of EnvVars: None for a variable that is not set
Environments ==
    {<<port, base_url, model, key>> :
        port \in {PyNone, PyStr(<<>>), PyStr(V_9000), PyStr(V_padded), PyStr(V_abc)},
        base_url \in {PyNone, PyStr(V_otherhost)},
        model \in {PyNone, PyStr(V_mistral)},
        key \in {PyNone, PyStr(V_testkey)}}

ConfigKeys ==
    {CK_api_port, CK_ollama_base_url, CK_ollama_default_model, CK_weather_api_key,
     CK_weather_units, CK_api, CK_nonexistent, CK_too_long}

ConfigDefaults == {PyNone, PyStr(V_default)}

\* Config(path).get(key, default): the evaluation of the construction and of the lookup
ApplyConfigGet(file, env, key, default) ==
    LET Got(config) ==
            IF config.exc # "" THEN config
            ELSE Returned(Config_get(config.v, key, default))
    IN  Applied("Config.get", <<file, env, PyStr(key), default>>,
                Got(Config_init(file, env)), <<>>)

UnitNext ==
    \/ \E http \in UnitWeatherResponses : ApplyWeather(http)
    \/ \E http \in UnitForecastResponses, now \in Nows : ApplyForecast(http, now)
    \/ \E http \in UnitWeatherResponses : ApplyToolWeather(http)
    \/ \E loc \in UnitLocations, llm \in UnitGeocodingAnswers : ApplyLlmGeocode(loc, llm)
    \/ \E loc \in UnitLocations :
          \E https \in [DOMAIN Variations(loc) -> UnitGeocodeResponses] :
             ApplyApiGeocode(loc, https)
    \/ \E loc \in UnitLocationStrings : ApplyNormalize(loc)
    \/ \E temp \in UnitTemperatures, description \in UnitDescriptions,
          wind_speed \in UnitWindSpeeds :
             ApplyClothing(ClothingSnapshot(temp, description, wind_speed), PyNone)
    \/ \E weather_data \in {CompletePayload} \cup BrokenPayloads, forecast \in UnitForecasts :
          ApplyClothing(weather_data, forecast)
    \/ \E forecast \in UnitBlockForecasts : ApplyClothing(CompletePayload, forecast)
    \/ \E data \in {CompletePayload} \cup BrokenPayloads : ApplyFormat(data)
    \/ \E data \in {CompletePayload} \cup BrokenPayloads : ApplyToolFormat(data)
    \/ \E payload \in UnitPayloads, now \in UnitNows : ApplyExtract(payload, now)
    \/ \E query \in UnitQueryStrings : ApplyPreprocess(query)
    \/ \E file \in ConfigFiles, env \in Environments, key \in ConfigKeys,
          default \in ConfigDefaults :
             ApplyConfigGet(file, env, key, default)

UnitSpec == Init /\ [][UnitNext]_vars

(***************************************************************************)
(* Two handlers of the server.  chat keeps everything it computes in the   *)
(* locals of its frame; llm, api_key and units are module globals that no  *)
(* handler assigns.  A handler may be suspended between any two of its     *)
(* steps while the other one runs.                                         *)
(***************************************************************************)
\* a faulty variant of Resumed: location is kept in a module global, so a handler that
\* runs again finds the value the other handler has assigned to it
ResumedSharingLocation(frame) ==
    IF location = PyNone THEN frame ELSE [frame EXCEPT ![6] = location]

\* the locals a handler finds when it runs again: those of its own frame
Resumed(frame) == frame

\* the handler that runs is suspended and the other one runs
Switch ==
    LET Resume(f) ==
            /\ served' = f[1]
            /\ pc' = f[2]
            /\ text' = f[3]
            /\ user_query' = f[4]
            /\ llm_response' = f[5]
            /\ location' = f[6]
            /\ coordinates' = f[7]
            /\ weather_text' = f[8]
            /\ raw_weather_data' = f[9]
            /\ forecast_data' = f[10]
            /\ response' = f[11]
            /\ outcome' = f[12]
            /\ detail' = f[13]
            /\ fallback' = f[14]
            /\ raised' = f[15]
            /\ calls' = f[16]
            /\ requests' = f[17]
    IN  /\ entry = "app"
        /\ Resume(Resumed(others))
        /\ others' = Frame
        /\ UNCHANGED <<api_key, entry>>

\* the queries and the collaborators' answers of the concurrent handlers
ConcQueries == {Q_joke, Q_rome}

ConcExtractionAnswers == {Returned(PyStr(E_rome)), Returned(PyStr(E_ives)), LlmError}

ConcGeocodingAnswers == {Returned(PyStr(G_coords)), Returned(PyStr(G_dontknow))}

ConcGeocodeResponses == {Returned(GeoHit), HttpError}

ConcWeatherResponses == {Returned(WeatherPayload(PyFloat(155), S_lightrain)), HttpError}

ConcForecastResponses == {Returned(ForecastDay), HttpError}

ConcInit == Init /\ entry = "app"

ConcNext ==
    \/ \E t \in ConcQueries : Receive(t)
    \/ Route
    \/ \E llm \in GeneralAnswers : GeneralQuery(llm)
    \/ \E llm \in ConcExtractionAnswers : ExtractLocation(llm)
    \/ Parse
    \/ Check
    \/ \E llm \in ConcGeocodingAnswers : LlmGeocode(llm)
    \/ \E https \in [DOMAIN Variations(location) -> ConcGeocodeResponses] : ApiGeocode(https)
    \/ NotFound
    \/ \E http \in ConcWeatherResponses : FetchWeather(http)
    \/ \E http \in ConcForecastResponses : FetchForecast(http, 9)
    \/ Compose
    \/ Switch

ConcSpec == ConcInit /\ [][ConcNext]_vars

(***************************************************************************)
(* The two entry points side by side.  The server handler and the          *)
(* interactive loop are given queries in turn; while one of them handles   *)
(* its query, the frame of the other one is kept in others.                *)
(***************************************************************************)
\* the entry point that runs is between two queries: the other one takes its turn
OtherEntryPoint ==
    LET Resume(f) ==
            /\ served' = f[1]
            /\ pc' = f[2]
            /\ text' = f[3]
            /\ user_query' = f[4]
            /\ llm_response' = f[5]
            /\ location' = f[6]
            /\ coordinates' = f[7]
            /\ weather_text' = f[8]
            /\ raw_weather_data' = f[9]
            /\ forecast_data' = f[10]
            /\ response' = f[11]
            /\ outcome' = f[12]
            /\ detail' = f[13]
            /\ fallback' = f[14]
            /\ raised' = f[15]
            /\ calls' = f[16]
            /\ requests' = f[17]
    IN  /\ pc \in {"idle", "done"}
        /\ Resume(others)
        /\ others' = Frame
        /\ entry' = IF entry = "app" THEN "direct" ELSE "app"
        /\ UNCHANGED api_key

PairInit == Init /\ entry = "app"

PairNext ==
    \/ \E t \in ConcQueries : Receive(t)
    \/ Route
    \/ \E llm \in GeneralAnswers : GeneralQuery(llm)
    \/ \E llm \in ConcExtractionAnswers : ExtractLocation(llm)
    \/ Parse
    \/ FallbackExtract
    \/ Check
    \/ \E llm \in ConcGeocodingAnswers : LlmGeocode(llm)
    \/ \E https \in [DOMAIN Variations(location) -> ConcGeocodeResponses] : ApiGeocode(https)
    \/ NotFound
    \/ \E http \in ConcWeatherResponses : FetchWeather(http)
    \/ \E http \in ConcForecastResponses : FetchForecast(http, 9)
    \/ Compose
    \/ OtherEntryPoint

PairSpec == PairInit /\ [][PairNext]_vars

(***************************************************************************)
(* Properties                                                              *)
(***************************************************************************)
\* the number of calls of this query to fn
Count(fn) == Cardinality({i \in DOMAIN calls : calls[i].fn = fn})

Geocoders == {"llm_geocode_location", "api_geocode_location"}

Fetches == {"get_weather_by_coordinates", "get_forecast_by_coordinates"}

Server == entry = "app"

\* a location the router goes on with: a non-empty str other than "unknown"
Usable(loc) == IsStr(loc) /\ loc.v # <<>> /\ LowerStr(loc.v) # S_unknown

\* the only call of the query is the general chain, and it raised
GeneralRaised ==
    /\ Len(calls) = 1
    /\ calls[1].fn = "general_chain"
    /\ calls[1].out.exc # ""
    /\ detail = calls[1].out.msg

\* the only call of the query is the location-resolution chain, and it returned
OnlyExtractionReturned ==
    /\ Len(calls) = 1
    /\ calls[1].fn = "location_chain"
    /\ calls[1].out.exc = ""

\* the first call of the query is the location-resolution chain, and it raised
ExtractionRaised ==
    /\ calls # <<>>
    /\ calls[1].fn = "location_chain"
    /\ calls[1].out.exc # ""

\* the calls in which a geocoding tier returned coordinates
Obtained == {i \in DOMAIN calls : calls[i].fn \in Geocoders /\ Truthy(calls[i].out.v)}

\* the last call of the query is the web tier, and it found nothing
BothTiersFailed ==
    /\ calls # <<>>
    /\ calls[Len(calls)].fn = "api_geocode_location"
    /\ ~Truthy(calls[Len(calls)].out.v)

\* the not-found message that would suggest the location itself
SameSuggestion(loc) ==
    S_NotFoundSpecific1 \o loc \o S_NotFoundSpecific2 \o loc \o S_NotFoundSpecific3

\* C1: a query whose normalized text does not contain "weather" in any letter case
\* calls neither geocoding tier nor the weather client: its one call is the general
\* chain with the normalized text, and the response is the output of that call.
C1_GeneralQueryOnlyAsksTheModel ==
    (pc \notin {"idle", "route", "exited"}
     /\ ~Contains(LowerStr(preprocess_query(text)), S_weather)) =>
        /\ user_query = preprocess_query(text)
        /\ Len(calls) <= 1
        /\ \A i \in DOMAIN calls :
              /\ calls[i].fn = "general_chain"
              /\ calls[i].arg = PyStr(preprocess_query(text))
        /\ pc = "done" =>
              /\ Len(calls) = 1
              /\ calls[1].out.exc = "" => outcome = "response" /\ response = calls[1].out.v

C1_JokeAnswered ==
    /\ pc = "done"
    /\ Server
    /\ text = Q_joke
    /\ Len(calls) = 1
    /\ outcome = "response"
    /\ response = PyStr(A_joke)

\* C2 (as amended): every query that is routed ends, and it ends in one response
\* string, except that a general query whose model call raises ends in the error of
\* that call (HTTP 500 with the exception text as detail; the interactive loop prints
\* the error) and no response.
C2_EveryQueryEnds ==
    /\ [](pc = "done" =>
             \/ outcome = "response" /\ IsStr(response)
             \/ outcome = "error" /\ GeneralRaised)
    /\ (pc = "route") ~> (pc = "done")

C2_GeneralFailureIsAnError ==
    /\ pc = "done"
    /\ Server
    /\ text = Q_joke
    /\ outcome = "error"
    /\ detail = X_refused

\* C2 as the specification states it: every routed query ends in a response string.
C2_EveryQueryEndsInAResponse ==
    /\ [](pc = "done" => outcome = "response" /\ IsStr(response))
    /\ (pc = "route") ~> (pc = "done")

\* C3: in the chat handler, no chain, tier or fetch is called twice in a query; the
\* model tier is the call right after the location-resolution chain; the web tier is
\* called only right after a model tier that returned nothing; and a query whose
\* location is usable called the location-resolution chain and the model tier once.
C3_TiersOnceAndInOrder ==
    Server =>
        /\ \A fn \in {"location_chain"} \cup Geocoders \cup Fetches : Count(fn) <= 1
        /\ \A i \in DOMAIN calls :
              calls[i].fn = "llm_geocode_location" =>
                  i = 2 /\ calls[1].fn = "location_chain"
        /\ \A i \in DOMAIN calls :
              calls[i].fn = "api_geocode_location" =>
                  /\ i = 3
                  /\ calls[2].fn = "llm_geocode_location"
                  /\ ~Truthy(calls[2].out.v)
        /\ (pc = "done" /\ Usable(location)) =>
              Count("location_chain") = 1 /\ Count("llm_geocode_location") = 1

C3_WebTierAfterModelTier ==
    /\ pc = "done"
    /\ Server
    /\ Usable(location)
    /\ Count("llm_geocode_location") = 1
    /\ Count("api_geocode_location") = 1
    /\ Count("get_forecast_by_coordinates") = 1

\* C4 as the specification states it: a query in which a tier returned coordinates
\* makes one current-weather fetch and one forecast fetch, both with the latitude and
\* longitude returned, and every fetch uses coordinates returned in the same query.
C4_OneFetchOfEachPerQuery ==
    pc = "done" =>
        /\ Obtained # {} =>
              /\ Count("get_weather_by_coordinates") = 1
              /\ Count("get_forecast_by_coordinates") = 1
        /\ \A j \in DOMAIN calls :
              calls[j].fn \in Fetches =>
                  \E i \in Obtained : i < j /\ calls[j].arg = LatLon(calls[i].out.v)

\* C5: in the chat handler, a query in whose weather branch an exception was raised is
\* answered with the generic message as a normal response, and no weather query ends
\* in HTTP 500.
C5_WeatherExceptionsAreAnswered ==
    (Server /\ pc = "done") =>
        /\ raised # <<>> => outcome = "response" /\ response = PyStr(MsgTrouble)
        /\ Contains(LowerStr(user_query), S_weather) => outcome = "response"

C5_ClothingFailureAnswered ==
    /\ pc = "done"
    /\ Server
    /\ raised = <<"IndexError">>
    /\ Count("get_forecast_by_coordinates") = 1
    /\ outcome = "response"
    /\ response = PyStr(MsgTrouble)

\* C6 as the specification states it: in the chat handler, whatever the
\* location-resolution chain returns, parsing it raises nothing, and a query that
\* ends without going on to geocoding is answered with the prompt for a location.
C6_ExtractionOutputIsRecovered ==
    (Server /\ OnlyExtractionReturned) =>
        /\ raised = <<>>
        /\ pc = "done" => outcome = "response" /\ response = PyStr(MsgNeedLocation)

\* C7 as the specification states it: when the location-resolution chain raises, the
\* location is extracted from the normalized query: if it is usable the model tier is
\* called with it, and if not the response is the fixed apology.
C7_DirectFallbackAfterFailedExtraction ==
    (pc = "done" /\ ExtractionRaised) =>
        IF Usable(extract_location_from_text(user_query))
        THEN /\ Len(calls) >= 2
             /\ calls[2].fn = "llm_geocode_location"
             /\ calls[2].arg = extract_location_from_text(user_query)
        ELSE outcome = "response" /\ response = PyStr(MsgTrouble)

\* C8: in the chat handler, a location that is the empty string or "unknown" in any
\* letter case is followed by no call to a geocoding tier or to the weather client,
\* and the query ends in the prompt for a location.
C8_NoLocationIsPromptedFor ==
    (Server /\ IsStr(location) /\ ~Usable(location)) =>
        /\ pc \in {"check", "done"}
        /\ \A i \in DOMAIN calls : calls[i].fn = "location_chain"
        /\ pc = "done" => outcome = "response" /\ response = PyStr(MsgNeedLocation)

C8_UpperCaseUnknownPrompted ==
    /\ pc = "done"
    /\ Server
    /\ IsStr(location)
    /\ location.v \notin {S_unknown, S_Unknown}
    /\ LowerStr(location.v) = S_unknown
    /\ response = PyStr(MsgNeedLocation)

\* C9: a web tier that finds nothing was called right after a model tier that found
\* nothing; it is the last call of the query, so that no fetch follows it (in the chat
\* handler the query makes no fetch at all), and the response contains "couldn't find"
\* and the text of the location.
C9_UnresolvedLocationIsNamed ==
    \A i \in DOMAIN calls :
        (calls[i].fn = "api_geocode_location" /\ ~Truthy(calls[i].out.v)) =>
            /\ i = Len(calls)
            /\ i > 1
            /\ calls[i - 1].fn = "llm_geocode_location"
            /\ ~Truthy(calls[i - 1].out.v)
            /\ calls[i].arg = location
            /\ Server => \A j \in DOMAIN calls : calls[j].fn \notin Fetches
            /\ pc \in {"not_found", "done", "exited"}
            /\ pc = "done" =>
                  /\ outcome = "response"
                  /\ IsStr(response)
                  /\ Contains(response.v, S_couldntfind)
                  /\ Contains(response.v, location.v)

C9_StIvesNotFound ==
    /\ pc = "done"
    /\ Server
    /\ location = PyStr(S_StIves)
    /\ BothTiersFailed
    /\ Contains(response.v, S_StIves)

\* C10 as the specification states it: when both tiers fail and the location has a
\* run of letters, the token the response suggests is shorter than the location, so
\* that the response is shorter than the one that would suggest the location itself.
C10_SuggestionIsShorterThanLocation ==
    (pc = "done" /\ ~fallback /\ BothTiersFailed /\ CitySearch(location.v).found) =>
        /\ response.v # SameSuggestion(location.v)
        /\ Len(response.v) < Len(SameSuggestion(location.v))

\* the calls of this query to the clothing advisor
ClothingCalls == {i \in DOMAIN calls : calls[i].fn = "get_clothing_recommendation"}

\* the query of the chat handler has ended after its current-weather fetch
WeatherFetched == Server /\ pc = "done" /\ Count("get_weather_by_coordinates") = 1

\* the text of the current-weather fetch contains "Error"
ErrorFetched == IsStr(weather_text) /\ Contains(weather_text.v, S_Error)

\* the response for an error text: the clothing advisor is not called
ApologyForFetch ==
    /\ ClothingCalls = {}
    /\ outcome = "response"
    /\ response = PyStr(S_CouldntGet1 \o location.v \o <<".", " ">> \o weather_text.v)

\* the one call of the clothing advisor, on the raw snapshot and the forecast
AdvisedOnce ==
    /\ Cardinality(ClothingCalls) = 1
    /\ calls[Len(calls)].fn = "get_clothing_recommendation"
    /\ calls[Len(calls)].arg = PyTuple(<<raw_weather_data, forecast_data>>)

\* the response with the weather text and the clothing text
AnswerWithAdvice ==
    /\ outcome = "response"
    /\ response = PyStr(S_Based1 \o location.v \o S_Based2 \o weather_text.v
                        \o <<"\n", "\n">> \o calls[Len(calls)].out.v.v)

ForecastErrorFetched == IsStr(forecast_data) /\ Contains(forecast_data.v, S_Error)

\* C12 as the specification states it: the error text of a failed forecast fetch is
\* never handed to the clothing advisor as the forecast, and a query of the chat
\* handler whose forecast fetch failed ends in the apology for the fetch.
C12_ForecastErrorIsDetected ==
    /\ \A i \in ClothingCalls : ~IsStr(calls[i].arg.v[2])
    /\ (WeatherFetched /\ ForecastErrorFetched) =>
           outcome = "response" /\ StartsWith(response.v, S_CouldntGet1)

\* the error prefix of a fetch function
ErrorPrefix(fn) ==
    IF fn = "get_forecast_by_coordinates" THEN S_ErrFetchForecast ELSE S_ErrFetchWeather

\* what a fetch function returns for the text t: the pair (t, None); WeatherTool.get_weather
\* returns the text alone
ErrorResult(fn, t) ==
    IF fn \in Fetches THEN Returned(PyTuple(<<PyStr(t), PyNone>>)) ELSE Returned(PyStr(t))

\* the error contract of the call c to one of the three weather functions
FetchContract(c) ==
    /\ c.fn \in Fetches => c.out.exc = ""
    /\ IF ~Truthy(api_key)
       THEN c.out = ErrorResult(c.fn, MsgNoApiKey) /\ requests = <<>>
       ELSE /\ Len(requests) = 1
            /\ c.arg.exc # "" => c.out = ErrorResult(c.fn, ErrorPrefix(c.fn) \o c.arg.msg)

PairOrNone(val) == val = PyNone \/ (val.t = "tuple" /\ Len(val.v) = 2)

\* C14: for every answer of the model and of the geocoding service, and whether or not
\* there is a location or a key, llm_geocode_location and api_geocode_location return,
\* and what they return is a tuple (lat, lon) or None.
C14_TiersNeverRaise ==
    \A i \in DOMAIN calls :
        calls[i].fn \in Geocoders =>
            calls[i].out.exc = "" /\ PairOrNone(calls[i].out.v)

C14_SecondVariationFound ==
    /\ pc = "applied"
    /\ calls[1].fn = "api_geocode_location"
    /\ calls[1].arg[1] = PyStr(S_NewYork)
    /\ calls[1].arg[2][1] = TransportError
    /\ calls[1].out = Returned(PyTuple(<<PyFloat(502), PyFloat(-55)>>))
    /\ requests = <<"geo", "geo">>

\* the handler has parsed the output of the location-resolution chain
LocationParsed == pc = "check" /\ ~fallback

\* C15: the location parsed from the output of the location-resolution chain follows
\* the ordered policy, first success wins: the value of the "location" key of the JSON
\* object in the output when there is one, otherwise the first match of the patterns in
\* the output, then in the normalized query, and "Unknown" exactly when all of these
\* fail.
C15_ExtractionFollowsPolicy ==
    LET FromQuery(m) == IF Truthy(m) THEN m ELSE PyStr(S_Unknown)
        FromOutput(m, query) ==
            IF Truthy(m) THEN m ELSE FromQuery(extract_location_from_text(query))
        FromObject(d, out, query) ==
            IF d.ok /\ IsDict(d.v) /\ S_location \in DOMAIN d.v.v
            THEN d.v.v[S_location]
            ELSE FromOutput(extract_location_from_text(out), query)
        Policy(json_match, out, query) ==
            FromObject(json_loads(IF json_match.found THEN json_match.g ELSE out),
                       out, query)
    IN  LocationParsed =>
            location = Policy(BraceSearch(llm_response.v), llm_response.v, user_query)

\* the applications of normalize_location
NormalizeCalls == {i \in DOMAIN calls : calls[i].fn = "normalize_location"}

\* no element of the list vs occurs twice
NoDuplicates(vs) == \A i, j \in DOMAIN vs : vs[i] = vs[j] => i = j

AdviceCalls ==
    {i \in DOMAIN calls :
        /\ calls[i].fn = "get_clothing_recommendation"
        /\ calls[i].out.exc = ""
        /\ StartsWith(calls[i].out.v.v, S_ClothingHeader \o S_ForNow)}

\* the "now" list as the text shows it: the line after "For now: "
NowLine(result) ==
    LET From(k) == SubSeq(result, k, k + RunLenNot(result, k, {"\n"}) - 1)
    IN  From(Len(S_ClothingHeader \o S_ForNow) + 1)

\* the snapshot of an application, its lowercased description and its temperature in
\* tenths of a degree
SnapshotOf(i) == calls[i].arg.v[1]

DescriptionOf(i) == LowerStr(SnapshotOf(i).v[K_weather].v[1].v[K_description].v)

TemperatureOf(i) == Tenths(SnapshotOf(i).v[K_main].v[K_temp])

\* C17: the condition rules of the "now" list apply independently of each other: a
\* description containing "thunderstorm" always yields the stay-indoors advisory (also
\* when it contains "rain"), one containing "snow" or "sleet" always yields waterproof
\* boots, and one containing "clear" with a temperature above 20 always yields
\* sunglasses, sunscreen and a sun hat.
C17_ConditionRulesIndependent ==
    \A i \in AdviceCalls :
        LET Rules(now, description, temp) ==
                /\ Contains(description, S_thunderstorm) => Contains(now, I_StayIndoors)
                /\ (Contains(description, S_snow) \/ Contains(description, S_sleet))
                      => Contains(now, I_WaterproofBoots)
                /\ (Contains(description, S_clear) /\ temp > 200)
                      => /\ Contains(now, I_Sunglasses)
                         /\ Contains(now, I_Sunscreen)
                         /\ Contains(now, I_SunHat)
        IN  Rules(NowLine(calls[i].out.v.v), DescriptionOf(i), TemperatureOf(i))

\* C18: for every numeric temperature the "now" list has the items of exactly one
\* temperature tier, the first matching one of temp < 0, < 10, < 15, < 20, < 25,
\* otherwise >= 25, a boundary value belonging to the warmer tier; so for a temperature
\* in [0, 10) it contains "winter coat or heavy jacket" and "hat and gloves"; and it
\* contains "sunglasses" or "sunscreen" only if the description contains "clear" and the
\* temperature is above 20.
C18_ExactlyOneTemperatureTier ==
    \A i \in AdviceCalls :
        LET Tiers ==
                << <<I_HeavyWinterCoat, I_HatScarfGloves, I_ThermalLayers, I_InsulatedBoots>>,
                   <<I_WinterCoat, I_HatGloves, I_WarmLayers>>,
                   <<I_LightJacket, I_LongSleeves>>,
                   <<I_LightSweater>>,
                   <<I_TShirt, I_LightPants>>,
                   <<I_Breathable, I_Shorts, I_SunProtection>> >>
            TierOf(temp) ==
                IF temp < 0 THEN 1 ELSE IF temp < 100 THEN 2 ELSE IF temp < 150 THEN 3
                ELSE IF temp < 200 THEN 4 ELSE IF temp < 250 THEN 5 ELSE 6
            Holds(now, description, temp) ==
                /\ StartsWith(now, Join(Tiers[TierOf(temp)]))
                /\ \A k \in 1..6 : Contains(now, Tiers[k][1]) <=> k = TierOf(temp)
                /\ (0 <= temp /\ temp < 100)
                      => Contains(now, I_WinterCoat) /\ Contains(now, I_HatGloves)
                /\ (Contains(now, I_Sunglasses) \/ Contains(now, I_Sunscreen))
                      => Contains(description, S_clear) /\ temp > 200
        IN  Holds(NowLine(calls[i].out.v.v), DescriptionOf(i), TemperatureOf(i))

\* recommendations have been returned for the boundary temperature 10 under a clear
\* sky: the tier below 15, and no sunglasses
C18_BoundaryInWarmerTier ==
    \E i \in AdviceCalls :
        /\ SnapshotOf(i).v[K_main].v[K_temp] = PyInt(10)
        /\ DescriptionOf(i) = D_clearsky
        /\ StartsWith(NowLine(calls[i].out.v.v), I_LightJacket)
        /\ ~Contains(NowLine(calls[i].out.v.v), I_Sunglasses)

\* the applications of get_clothing_recommendation
AdvisorCalls == {i \in DOMAIN calls : calls[i].fn = "get_clothing_recommendation"}

\* C19: get_clothing_recommendation never raises: whenever a field it reads is absent
\* from the current snapshot (a missing key at any level, an empty "weather" list, a
\* null sub-object), or the forecast argument is not a list of entries, it returns a
\* string beginning "Error generating clothing recommendations: ".
C19_ClothingNeverRaises ==
    \A i \in AdvisorCalls :
        LET Absent(reads) == \E k \in 1..3 : reads[k].exc # ""
            Holds(weather_data, forecast, out) ==
                /\ out.exc = ""
                /\ (Absent(ClothingReads(weather_data)) \/ forecast.t = "str")
                      => StartsWith(out.v.v, S_ErrClothing)
        IN  Holds(calls[i].arg.v[1], calls[i].arg.v[2], calls[i].out)

\* the payload an application formats: the argument of a formatting function, the
\* answer of the endpoint for WeatherTool.get_weather with a key configured
FormattedPayloads(i) ==
    IF calls[i].fn \in {"format_weather_data", "WeatherTool._format_weather_data"}
    THEN {calls[i].arg}
    ELSE IF calls[i].fn = "WeatherTool.get_weather" /\ Truthy(api_key)
            /\ calls[i].arg.exc = ""
    THEN {calls[i].arg.v}
    ELSE {}

\* C20: for every raw payload in which an expected field is missing (a missing key at
\* any nesting level, an empty "weather" list, a null sub-object), formatting returns a
\* string beginning "Error parsing weather data: " and does not raise: in
\* format_weather_data, in WeatherTool._format_weather_data and through
\* WeatherTool.get_weather.
C20_MissingFieldIsParseError ==
    \A i \in DOMAIN calls :
        \A data \in FormattedPayloads(i) \cap BrokenPayloads :
            /\ calls[i].out.exc = ""
            /\ StartsWith(calls[i].out.v.v, S_ErrParseWeather)

\* the two handlers have received the same text and have got the same answers from
\* their collaborators
SameAnswers ==
    /\ text = others[3]
    /\ Len(calls) = Len(others[16])
    /\ \A i \in DOMAIN calls : calls[i].out = others[16][i].out

\* both handlers have ended their query
BothDone == entry = "app" /\ pc = "done" /\ others[2] = "done"

\* C21: whatever the interleaving of two handlers, a query's sequence of collaborator
\* calls and its response depend on its text and its collaborators' answers only: two
\* queries with the same text and the same answers, one of them handled while the other
\* handler was running, or suspended, or had ended, make the same calls and end in the
\* same response.
C21_HandlersIndependent ==
    (BothDone /\ SameAnswers) =>
        /\ calls = others[16]
        /\ response = others[11]
        /\ outcome = others[12]
        /\ detail = others[13]

\* two handlers have gone through the whole pipeline with the same answers
C21_TwoFullPipelines ==
    /\ BothDone
    /\ SameAnswers
    /\ Len(calls) = 5
    /\ calls[5].fn = "get_clothing_recommendation"
    /\ outcome = "response"

\* the applications of preprocess_query
PreprocessCalls == {i \in DOMAIN calls : calls[i].fn = "preprocess_query"}

\* the number of "?" in s
QuestionMarks(s) == Cardinality({k \in DOMAIN s : s[k] = "?"})

\* C22: preprocess_query is idempotent: preprocess_query(preprocess_query(s)) =
\* preprocess_query(s) for every string s; the output is trimmed and has no run of two
\* or more whitespace characters; it has at most one "?" more than s, and a second
\* application adds none.
C22_PreprocessIdempotent ==
    \A i \in PreprocessCalls :
        LET Holds(s, out, again) ==
                /\ again = out
                /\ Strip(out) = out
                /\ \A k \in 1..(Len(out) - 1) : ~(IsSpace(out[k]) /\ IsSpace(out[k + 1]))
                /\ QuestionMarks(out) <= QuestionMarks(s) + 1
                /\ QuestionMarks(again) = QuestionMarks(out)
            Twice(s, out) == Holds(s, out, preprocess_query(out))
        IN  Twice(calls[i].arg.v, calls[i].out.v.v)

\* preprocess_query has been applied to " Is\t" and has returned "Is?"
C22_QuestionMarkAdded ==
    \E i \in PreprocessCalls :
        /\ calls[i].arg.v = <<" ", "I", "s", "\t">>
        /\ calls[i].out.v.v = <<"I", "s", "?">>

\* the applications of Config.get
ConfigCalls == {i \in DOMAIN calls : calls[i].fn = "Config.get"}

\* the environment variable that corresponds to a dotted key, "" when there is none
VariableOf(key) ==
    CASE key = CK_api_port -> "API_PORT"
      [] key = CK_ollama_base_url -> "OLLAMA_BASE_URL"
      [] key = CK_ollama_default_model -> "OLLAMA_MODEL"
      [] key = CK_weather_api_key -> "OPENWEATHER_API_KEY"
      [] OTHER -> ""

\* C23: Config.get on a dotted key returns the value of the corresponding environment
\* variable (the port as a number) whenever that variable is set to a non-empty value,
\* otherwise the value the configuration file has at the dotted path, and the caller's
\* default when a segment of the path is absent, also when the file is missing or
\* unreadable; it does not raise.
C23_EnvironmentThenFileThenDefault ==
    \A i \in ConfigCalls :
        LET Absent == PyStr(<<"?">>)
            InFile(file, key) ==
                ConfigWalk(Config_load_config_file(file), SplitOn(key, "."), 1, Absent)
            FromFile(found, default, out) ==
                IF found = Absent THEN out = default
                ELSE IsDict(found) \/ out = found
            FromEnv(val, out) ==
                \/ out = val
                \/ out.t = "int" /\ IntOfStr(val.v) = Returned(out)
            Holds(file, env, key, default, out) ==
                /\ out.exc = ""
                /\ IF VariableOf(key) # "" /\ Truthy(GetEnv(env, VariableOf(key)))
                   THEN FromEnv(GetEnv(env, VariableOf(key)), out.v)
                   ELSE FromFile(InFile(file, key), default, out.v)
        IN  Holds(calls[i].arg[1], calls[i].arg[2], calls[i].arg[3].v, calls[i].arg[4],
                  calls[i].out)

\* the applications of api_geocode_location
WebTierCalls == {i \in DOMAIN calls : calls[i].fn = "api_geocode_location"}

\* the answer to a geocoding request has an entry with both lat and lon
HasCoordinates(http) ==
    /\ http.exc = ""
    /\ http.v.t = "list"
    /\ http.v.v # <<>>
    /\ IsDict(http.v.v[1])
    /\ DictGet(http.v.v[1], K_lat) # PyNone
    /\ DictGet(http.v.v[1], K_lon) # PyNone

\* C24: the web tier sends at most one request per variant, in the order of the
\* normalize_location list, and stops at the first variant whose answer has an entry
\* with both lat and lon, returning that pair; an error or an empty result for a variant
\* does not stop it; it returns None only after every variant has been tried; it sends
\* no request when the location or the key is missing.
C24_FirstVariantWithCoordinates ==
    \A i \in WebTierCalls :
        LET Pair(e) == PyTuple(<<e.v[K_lat], e.v[K_lon]>>)
            Tried(loc, https, out, n) ==
                /\ n <= Len(normalize_location(loc.v))
                /\ \A k \in 1..(n - 1) : ~HasCoordinates(https[k])
                /\ IF out = PyNone
                   THEN n = Len(normalize_location(loc.v))
                        /\ (n > 0 => ~HasCoordinates(https[n]))
                   ELSE n > 0 /\ HasCoordinates(https[n]) /\ out = Pair(https[n].v.v[1])
            Holds(loc, https, out) ==
                /\ out.exc = ""
                /\ IF ~Truthy(loc) \/ ~Truthy(api_key)
                   THEN requests = <<>> /\ out.v = PyNone
                   ELSE Tried(loc, https, out.v, Len(requests))
        IN  Holds(calls[i].arg[1], calls[i].arg[2], calls[i].out)

\* "New York": the answer for the first variant lacks lon, the second variant is
\* requested and its pair is returned
C24_SecondVariantAfterIncomplete ==
    \E i \in WebTierCalls :
        /\ calls[i].arg[1] = PyStr(S_NewYork)
        /\ calls[i].arg[2][1] = Returned(GeoNoLon)
        /\ calls[i].arg[2][2] = Returned(GeoHitElsewhere)
        /\ calls[i].out = Returned(PyTuple(<<PyFloat(407), PyInt(-74)>>))
        /\ Len(requests) = 2

\* the list vs without the elements that occur earlier in it
FirstOccurrences(vs) ==
    LET RECURSIVE Keep(_)
        Keep(i) ==
            IF i > Len(vs) THEN <<>>
            ELSE IF \E j \in 1..(i - 1) : vs[j] = vs[i] THEN Keep(i + 1)
            ELSE <<vs[i]>> \o Keep(i + 1)
    IN  Keep(1)

\* C25: for every non-empty location string, normalize_location returns, in this order
\* and with later duplicates dropped: the string (trimmed); the string without
\* punctuation if that differs; the first whitespace-separated token if there is more
\* than one; and, whenever the string contains exactly one comma, the trimmed part
\* before the comma and then the trimmed part after it, also when the string has no
\* whitespace.
C25_CommaPartsWithoutWhitespace ==
    \A i \in NormalizeCalls :
        LET Commas(s) == Cardinality({k \in DOMAIN s : s[k] = ","})
            Expected(loc) ==
                <<loc>>
                \o (IF RemoveSpecial(loc) # loc THEN <<RemoveSpecial(loc)>> ELSE <<>>)
                \o (IF Len(SplitWhitespace(loc)) > 1
                    THEN <<SplitWhitespace(loc)[1]>> ELSE <<>>)
                \o (IF Commas(loc) = 1
                    THEN <<Strip(SplitOn(loc, ",")[1]), Strip(SplitOn(loc, ",")[2])>>
                    ELSE <<>>)
            Holds(L, vs) ==
                L # <<>> => vs = FirstOccurrences([k \in DOMAIN Expected(Strip(L)) |->
                                                     PyStr(Expected(Strip(L))[k])])
        IN  Holds(calls[i].arg.v, calls[i].out.v.v)

\* the applications of llm_geocode_location to a location and an output of the model
EstimateCalls ==
    {i \in DOMAIN calls : /\ calls[i].fn = "llm_geocode_location"
                          /\ Truthy(calls[i].arg[1])
                          /\ calls[i].arg[2].exc = ""}

\* C26: the three parsing steps of the model-estimate tier form a first-success chain:
\* whenever the JSON steps yield no coordinates, because the parse fails or because the
\* parsed JSON lacks the latitude or longitude key, the numeric-pair fallback is applied
\* to the raw output, and the tier returns None only if that finds no pair either.
C26_RegexAfterKeylessJson ==
    \A i \in EstimateCalls :
        LET Holds(raw, json, out) ==
                (json.exc = "JSONDecodeError" \/ json = Returned(PyNone))
                    => out = Returned(RegexCoordinates(raw))
        IN  Holds(calls[i].arg[2].v.v, JsonCoordinates(calls[i].arg[2].v.v), calls[i].out)

\* the applications of extract_today_forecast
ExtractCalls == {i \in DOMAIN calls : calls[i].fn = "extract_today_forecast"}

\* the payload has a "list" whose entries all carry a timestamp
Timestamped(payload) ==
    /\ Truthy(payload)
    /\ K_list \in DOMAIN payload.v
    /\ payload.v[K_list].t = "list"
    /\ \A k \in DOMAIN payload.v[K_list].v :
          K_dt \in DOMAIN payload.v[K_list].v[k].v

\* C27: extract_today_forecast returns exactly the entries of the provider's list whose
\* timestamp is on the calendar date of the call and strictly after the instant of the
\* call, in the provider's order, each annotated with its "HH:MM" local time; an entry
\* of another date or at or before the current instant is never retained; a payload
\* without a "list" yields the empty list.
C27_RestOfTodayInProviderOrder ==
    \A i \in ExtractCalls :
        LET HHMM(h) == NatToStr(h \div 10) \o NatToStr(h % 10) \o <<":", "0", "0">>
            Annotated(given, kept) ==
                /\ DOMAIN kept.v = DOMAIN given.v \cup {K_formatted_time}
                /\ \A key \in DOMAIN given.v : kept.v[key] = given.v[key]
                /\ kept.v[K_formatted_time] = PyStr(HHMM(given.v[K_dt].v % HoursPerDay))
            Exactly(entries, now, out, today) ==
                /\ Len(out) = Cardinality(today)
                /\ \A k \in today :
                      Annotated(entries[k], out[Cardinality({j \in today : j <= k})])
            Filtered(entries, now, out) ==
                Exactly(entries, now, out,
                        {k \in DOMAIN entries :
                            /\ entries[k].v[K_dt].v \div HoursPerDay = now \div HoursPerDay
                            /\ entries[k].v[K_dt].v > now})
            Holds(payload, now, out) ==
                /\ (~Truthy(payload) \/ K_list \notin DOMAIN payload.v)
                      => out = Returned(PyList(<<>>))
                /\ Timestamped(payload)
                      => /\ out.exc = ""
                         /\ out.v.t = "list"
                         /\ Filtered(payload.v[K_list].v, now, out.v.v)
        IN  Holds(calls[i].arg[1], calls[i].arg[2], calls[i].out)

\* at 09:00 the provider lists entries for 22:00, 09:00 and 10:00 of the day, in this
\* order: the entries of 22:00 and 10:00 are returned, in this order
C27_UnsortedListFiltered ==
    \E i \in ExtractCalls :
        /\ calls[i].arg[2] = 9
        /\ Timestamped(calls[i].arg[1])
        /\ Len(calls[i].arg[1].v[K_list].v) = 3
        /\ calls[i].arg[1].v[K_list].v[1].v[K_dt] = PyInt(22)
        /\ calls[i].arg[1].v[K_list].v[2].v[K_dt] = PyInt(9)
        /\ calls[i].arg[1].v[K_list].v[3].v[K_dt] = PyInt(10)
        /\ Len(calls[i].out.v.v) = 2
        /\ calls[i].out.v.v[1].v[K_formatted_time] = PyStr(<<"2", "2", ":", "0", "0">>)
        /\ calls[i].out.v.v[2].v[K_formatted_time] = PyStr(<<"1", "0", ":", "0", "0">>)

\* the applications of get_clothing_recommendation to a complete payload and a list of
\* forecast entries
BlockCalls ==
    {i \in AdvisorCalls : /\ calls[i].arg.v[1] = CompletePayload
                          /\ calls[i].arg.v[2] \in UnitBlockForecasts}

\* the hours of the blocks Morning, Afternoon and Evening
BlockHours == <<0..11, 12..17, 18..23>>

\* C28: for any list of forecast entries, each entry is in exactly one block by its
\* local hour (Morning: hour < 12; Afternoon: 12 <= hour < 18; Evening: hour >= 18);
\* the list of a non-empty block is derived only from the block's entry at index
\* count // 2; the text has exactly one line per non-empty block, in the order
\* Morning, Afternoon, Evening, under the header "For the rest of the day:", which is
\* there if and only if at least one block is non-empty.
C28_OneLinePerBlockFromMiddleEntry ==
    \A i \in BlockCalls :
        LET LineOf(b, middle) ==
                <<"-", " ">> \o BlockNames[b] \o S_ColonSpace
                \o Join(BlockRecommendations(middle)) \o <<".", "\n">>
            Line(b, block) ==
                IF block = <<>> THEN <<>> ELSE LineOf(b, block[(Len(block) \div 2) + 1])
            Block(entries, b) ==
                SelectSeq(entries, LAMBDA e : (e.v[K_dt].v % HoursPerDay) \in BlockHours[b])
            Lines(entries) ==
                Line(1, Block(entries, 1)) \o Line(2, Block(entries, 2))
                \o Line(3, Block(entries, 3))
            Rest(entries) ==
                IF \A b \in 1..3 : Block(entries, b) = <<>> THEN <<>>
                ELSE S_RestOfDay \o Lines(entries)
            Holds(weather_data, entries, out) ==
                /\ \A k \in DOMAIN entries :
                      Cardinality({b \in 1..3 :
                          (entries[k].v[K_dt].v % HoursPerDay) \in BlockHours[b]}) = 1
                /\ out = Returned(PyStr(
                      S_ClothingHeader \o S_ForNow \o Join(CurrentRecommendations(weather_data))
                      \o <<".", "\n", "\n">> \o Rest(entries)))
        IN  Holds(calls[i].arg.v[1], calls[i].arg.v[2].v, calls[i].out)

\* a forecast with entries at 05:00 (30 degrees), 11:00 (-5 degrees) and 18:00: the
\* Morning line is derived from the entry of 11:00, there is no Afternoon line, and the
\* Evening line follows the Morning line
C28_MorningFromSecondOfTwo ==
    \E i \in BlockCalls :
        /\ calls[i].arg.v[2].v =
              <<ForecastEntry(5, PyInt(30), Rainy), ForecastEntry(11, PyInt(-5), Rainy),
                ForecastEntry(18, PyInt(22), Rainy)>>
        /\ Contains(calls[i].out.v.v,
                    S_RestOfDay \o <<"-", " ">> \o S_Morning \o S_ColonSpace
                    \o I_HeavyWinterCoat)
        /\ Contains(calls[i].out.v.v, <<".", "\n", "-", " ">> \o S_Evening \o S_ColonSpace)
        /\ ~Contains(calls[i].out.v.v, S_Afternoon)

\* the current-weather fetch of this query of the chat handler succeeded with a complete
\* payload: the weather text is the formatted payload
CompleteFetched ==
    /\ WeatherFetched
    /\ raw_weather_data # PyNone
    /\ IsStr(weather_text)
    /\ StartsWith(weather_text.v, S_WeatherIn)

\* C29: whenever the current-weather fetch succeeds with a complete payload, the
\* response is never of the form "I couldn't get the weather for ...", whatever the
\* payload holds, a city name containing "Error" included.
C29_CompletePayloadNeverApology ==
    CompleteFetched => ~(outcome = "response" /\ StartsWith(response.v, S_CouldntGet1))

\* the openings that tell the kinds of response of the weather branch apart
ResponseForms ==
    {S_Based1, S_CouldntGet1, S_NotFoundSpecific1, S_NotFound1, MsgNeedLocation, MsgTrouble,
     MsgDontUnderstand}

\* both entry points have ended a query with the same text, and wherever both made
\* their k-th collaborator call they got the same answer
SameQueryAndAnswers ==
    /\ pc = "done"
    /\ others[2] = "done"
    /\ text = others[3]
    /\ \A k \in DOMAIN calls \cap DOMAIN others[16] : calls[k].out = others[16][k].out

\* C30: the two entry points implement the same pipeline: for every query text and
\* every sequence of collaborator answers, the location-extraction call raising
\* included, the server handler and the interactive loop make the same sequence of
\* collaborator calls and end in the same kind of response.
C30_EntryPointsSamePipeline ==
    SameQueryAndAnswers =>
        /\ Len(calls) = Len(others[16])
        /\ \A k \in DOMAIN calls : calls[k].fn = others[16][k].fn
        /\ outcome = others[12]
        /\ outcome = "response" =>
              \A form \in ResponseForms :
                  StartsWith(PyFormat(response), form)
                      <=> StartsWith(PyFormat(others[11]), form)
====
